---- MODULE Spec2Model ----
(***************************************************************************)
(* Model of the encounter-bot table engine: the workbook importer          *)
(* (src/importer.py), the exporter (src/download.py), the delete command   *)
(* (src/delete_cmd.py) and the SQLite store they share.                    *)
(*                                                                         *)
(* Python values are represented as follows.                               *)
(*   Optional[x]   <<>> for None, <<x>> for a value                        *)
(*   cell          [k, v, s]: k = "none" | "int" | "float" | "text"        *)
(*   sheet         [header : Seq(cell), rows : Seq(Seq(cell))]             *)
(*   workbook      Seq([title, sheet]) with pairwise distinct titles       *)
(***************************************************************************)
EXTENDS Integers, Sequences, FiniteSets, TLC

-----------------------------------------------------------------------------
(* Optional values *)

None == <<>>

Some(x) == <<x>>

(* roll modes, src/importer.py:12-14 *)
ROLL_UNIFORM == "uniform"

ROLL_WEIGHT == "weight"

ROLL_RANGE == "range"

-----------------------------------------------------------------------------
(* Cells as openpyxl hands them over with values_only=True *)

NoneCell == [k |-> "none", v |-> 0, s |-> ""]

IntCell(n) == [k |-> "int", v |-> n, s |-> ""]

(* a float n + 0.0 (s = ".0") or n + 0.5 (s = ".5") *)
FloatCell(n, s) == [k |-> "float", v |-> n, s |-> s]

TextCell(s) == [k |-> "text", v |-> 0, s |-> s]

(* Largest magnitude of an integer that the textual conversions cover *)
MaxInt == 12

Digit == <<"0", "1", "2", "3", "4", "5", "6", "7", "8", "9">>

RECURSIVE NatStr(_)
NatStr(n) == IF n < 10 THEN Digit[n + 1]
             ELSE NatStr(n \div 10) \o Digit[(n % 10) + 1]

(* str(n) for a Python int *)
IntStr(n) == IF n < 0 THEN "-" \o NatStr(0 - n) ELSE NatStr(n)

(* str.strip() on the texts the model uses *)
Strip(s) ==
    CASE s = " a" -> "a"
      [] s = "a " -> "a"
      [] s = " 2" -> "2"
      [] s = " min" -> "min"
      [] s = " " -> ""
      [] s = "  " -> ""
      [] OTHER -> s

(* str.lower() on the texts the model uses *)
Lower(s) ==
    CASE s = "Type" -> "type"
      [] s = "Result" -> "result"
      [] s = "Min" -> "min"
      [] s = "MAX" -> "max"
      [] s = "Weight" -> "weight"
      [] OTHER -> s

(* str(v) for a cell value *)
PyStr(c) ==
    CASE c.k = "int" -> IntStr(c.v)
      [] c.k = "float" -> IntStr(c.v) \o c.s
      [] c.k = "text" -> c.s
      [] OTHER -> "None"

_norm_header(c) == IF c.k = "none" THEN "" ELSE Lower(Strip(PyStr(c)))

_cell_str(c) == IF c.k = "none" THEN "" ELSE Strip(PyStr(c))

(* float(s) for a stripped text: <<n>> when it denotes the integer n,     *)
(* <<>> when it denotes a non-integer or raises ValueError                 *)
FloatIsInteger(t) ==
    IF \E n \in (0 - MaxInt)..MaxInt : t = IntStr(n) \/ t = IntStr(n) \o ".0"
    THEN Some(CHOOSE n \in (0 - MaxInt)..MaxInt :
                  t = IntStr(n) \/ t = IntStr(n) \o ".0")
    ELSE None

_to_int(c) ==
    CASE c.k = "none" -> None
      [] c.k = "int" -> Some(c.v)
      [] c.k = "float" -> IF c.s = ".0" THEN Some(c.v) ELSE None
      [] OTHER -> IF Strip(c.s) = "" THEN None ELSE FloatIsInteger(Strip(c.s))

-----------------------------------------------------------------------------
(* Sequence helpers standing for Python's for-loops and list operations *)

(* a local variable: body applied to the value of v, computed once *)
Let(v, body(_)) == CHOOSE y \in {body(x) : x \in {v}} : TRUE

RECURSIVE FlatMap(_, _)
FlatMap(F(_), s) ==
    IF s = <<>> THEN <<>> ELSE F(Head(s)) \o FlatMap(F, Tail(s))

(* [F(x) for x in s] *)
MapSeq(F(_), s) == LET One(x) == <<F(x)>> IN FlatMap(One, s)

(* {k: F(k) for k in keys}, keys a non-empty list *)
RECURSIVE DictOf(_, _)
DictOf(F(_), keys) ==
    IF Len(keys) = 1 THEN Head(keys) :> F(Head(keys))
    ELSE DictOf(F, Tail(keys)) @@ (Head(keys) :> F(Head(keys)))

(* the elements of a set in some order *)
RECURSIVE SetToSeq(_)
SetToSeq(S) ==
    IF S = {} THEN <<>>
    ELSE LET x == CHOOSE y \in S : TRUE IN <<x>> \o SetToSeq(S \ {x})

-----------------------------------------------------------------------------
(* Workbooks *)

SheetNames(wb) == {wb[i].title : i \in 1..Len(wb)}

SheetOf(wb, tab) == wb[CHOOSE i \in 1..Len(wb) : wb[i].title = tab].sheet

(* header_map of _read_sheet_rows: normalized header -> first column *)
HeaderMap(ws) ==
    LET keys == {_norm_header(ws.header[i]) : i \in 1..Len(ws.header)} \ {""}
        first == [key \in keys |->
                    CHOOSE i \in 1..Len(ws.header) :
                        /\ _norm_header(ws.header[i]) = key
                        /\ \A j \in 1..(i - 1) : _norm_header(ws.header[j]) # key]
    IN IF keys = {} THEN <<>> ELSE DictOf(LAMBDA key : first[key], SetToSeq(keys))

IsBlankRow(r) ==
    \A i \in 1..Len(r) : r[i].k = "none" \/ Strip(PyStr(r[i])) = ""

RECURSIVE DataRows(_, _)
DataRows(rows, i) ==
    IF i > Len(rows) THEN <<>>
    ELSE IF IsBlankRow(rows[i]) THEN DataRows(rows, i + 1)
    ELSE <<[row_no |-> i + 1, row |-> rows[i]]>> \o DataRows(rows, i + 1)

(* _read_sheet_rows: (header_map, data); data rows carry their Excel row   *)
(* number, fully blank rows are skipped                                    *)
_read_sheet_rows(ws) ==
    [header_map |-> HeaderMap(ws), data |-> DataRows(ws.rows, 1)]

-----------------------------------------------------------------------------
(* List operations *)

RECURSIVE SumSeq(_)
SumSeq(s) == IF s = <<>> THEN 0 ELSE Head(s) + SumSeq(Tail(s))

(* list(dict.fromkeys(s)): first occurrences, in order *)
RECURSIVE DictFromKeys(_, _)
DictFromKeys(s, seen) ==
    IF s = <<>> THEN <<>>
    ELSE IF Head(s) \in seen THEN DictFromKeys(Tail(s), seen)
    ELSE <<Head(s)>> \o DictFromKeys(Tail(s), seen \cup {Head(s)})

(* (min, max) order of list.sort(key=lambda x: (x[0], x[1])) *)
KeyLess(a, b) == a.mi < b.mi \/ (a.mi = b.mi /\ a.ma < b.ma)

RECURSIVE InsertSorted(_, _)
InsertSorted(x, s) ==
    IF s = <<>> THEN <<x>>
    ELSE IF KeyLess(x, Head(s)) THEN <<x>> \o s
    ELSE <<Head(s)>> \o InsertSorted(x, Tail(s))

(* stable sort: an element goes after the earlier elements of equal key *)
RECURSIVE SortRanges(_)
SortRanges(s) ==
    IF s = <<>> THEN <<>>
    ELSE InsertSorted(s[Len(s)], SortRanges(SubSeq(s, 1, Len(s) - 1)))

-----------------------------------------------------------------------------
(* Validation, src/importer.py *)

ImportError(tab, row, message) == [tab |-> tab, row |-> row, message |-> message]

Cell(r, hm, col) == r.row[hm[col]]

(* (mi, ma) = (_to_int(row[header_map["min"]]), _to_int(row[header_map["max"]])) *)
MinMax(r, hm) == [mi |-> _to_int(Cell(r, hm, "min")), ma |-> _to_int(Cell(r, hm, "max"))]

_detect_mode(tab, hm, data) ==
    LET has_min == "min" \in DOMAIN hm
        has_max == "max" \in DOMAIN hm
        has_weight == "weight" \in DOMAIN hm
        RangeErr(r) ==
            Let(MinMax(r, hm), LAMBDA m :
                IF m.mi = None \/ m.ma = None THEN <<>>
                ELSE IF m.mi[1] > m.ma[1]
                THEN <<ImportError(tab, Some(r.row_no),
                         "Invalid range: min " \o IntStr(m.mi[1])
                         \o " is greater than max " \o IntStr(m.ma[1]) \o ".")>>
                ELSE <<>>)
        WeightErr(r) ==
            Let(_to_int(Cell(r, hm, "weight")), LAMBDA w :
                IF w = None THEN <<>>
                ELSE IF w[1] <= 0
                THEN <<ImportError(tab, Some(r.row_no),
                         "Invalid weight " \o IntStr(w[1])
                         \o ". Must be a positive integer.")>>
                ELSE <<>>)
    IN IF has_min \/ has_max
       THEN IF ~(has_min /\ has_max)
            THEN [mode |-> ROLL_RANGE,
                  errors |-> <<ImportError(tab, None,
                      "Range mode requires both 'min' and 'max' columns.")>>]
            ELSE [mode |-> ROLL_RANGE, errors |-> FlatMap(RangeErr, data)]
       ELSE IF has_weight
       THEN [mode |-> ROLL_WEIGHT, errors |-> FlatMap(WeightErr, data)]
       ELSE [mode |-> ROLL_UNIFORM, errors |-> <<>>]

(* the (min, max, row) triples _validate_ranges collects *)
ValidRanges(hm, data) ==
    LET One(r) ==
            Let(MinMax(r, hm), LAMBDA m :
                IF m.mi = None \/ m.ma = None THEN <<>>
                ELSE <<[mi |-> m.mi[1], ma |-> m.ma[1], row_no |-> r.row_no]>>)
    IN FlatMap(One, data)

(* the error of one step of the loop over the sorted ranges *)
Overlap(tab, prev, cur) ==
    IF cur.mi <= prev.ma
    THEN <<ImportError(tab, Some(cur.row_no),
             "Overlapping ranges with row " \o IntStr(prev.row_no)
             \o ": " \o IntStr(prev.mi) \o "-" \o IntStr(prev.ma)
             \o " overlaps " \o IntStr(cur.mi) \o "-" \o IntStr(cur.ma) \o ".")>>
    ELSE <<>>

_validate_ranges(tab, hm, data) ==
    Let(SortRanges(ValidRanges(hm, data)), LAMBDA ranges :
        FlatMap(LAMBDA i : Overlap(tab, ranges[i - 1], ranges[i]),
                [i \in 1..(Len(ranges) - 1) |-> i + 1]))

(* row[header_map["min"]] / row[header_map["max"]] raise KeyError in the   *)
(* first loop iteration when the column is absent                          *)
RangeKeyError(hm, data) ==
    /\ data # <<>>
    /\ ~("min" \in DOMAIN hm /\ "max" \in DOMAIN hm)

Max(a, b) == IF a >= b THEN a ELSE b

-----------------------------------------------------------------------------
(* Sheet parsers, src/importer.py.  exc is TRUE when the parser raises      *)
(* (KeyError) instead of returning.                                        *)

Raised == [exc |-> TRUE, mode |-> ROLL_RANGE, items |-> <<>>,
           max_roll |-> None, errors |-> <<>>]

Returned(mode, items, max_roll, errors) ==
    [exc |-> FALSE, mode |-> mode, items |-> items,
     max_roll |-> max_roll, errors |-> errors]

(* mr = max(mr, ma) over the rows kept, starting from 0 *)
RECURSIVE MaxOfMax(_, _)
MaxOfMax(entries, mr) ==
    IF entries = <<>> THEN mr
    ELSE MaxOfMax(Tail(entries), Max(mr, Head(entries).max[1]))

MaxRollOf(entries) ==
    LET mr == MaxOfMax(entries, 0) IN IF mr > 0 THEN Some(mr) ELSE None

(* the rows a parser keeps, as entry dicts; kind is "type" or "result" *)
KeptRows(mode, hm, data, kind) ==
    LET One(r) ==
            Let(_cell_str(Cell(r, hm, kind)), LAMBDA t :
                IF t = "" THEN <<>>
                ELSE IF mode = ROLL_RANGE
                THEN Let(MinMax(r, hm), LAMBDA m :
                         IF m.mi = None \/ m.ma = None THEN <<>>
                         ELSE <<[min |-> m.mi, max |-> m.ma, weight |-> None,
                                 result |-> t]>>)
                ELSE IF mode = ROLL_WEIGHT
                THEN Let(_to_int(Cell(r, hm, "weight")), LAMBDA w :
                         IF w = None \/ w[1] <= 0 THEN <<>>
                         ELSE <<[min |-> None, max |-> None, weight |-> w,
                                 result |-> t]>>)
                ELSE <<[min |-> None, max |-> None, weight |-> None,
                        result |-> t]>>)
    IN FlatMap(One, data)

ResultsOf(entries) == LET Result(e) == e.result IN MapSeq(Result, entries)

_parse_type_tab(wb, tab) ==
    IF tab \notin SheetNames(wb)
    THEN Returned(ROLL_UNIFORM, <<>>, None,
                  <<ImportError(tab, None, "Missing required tab.")>>)
    ELSE
    Let(_read_sheet_rows(SheetOf(wb, tab)), LAMBDA rd :
    LET hm == rd.header_map
        data == rd.data
    IN IF "type" \notin DOMAIN hm
       THEN Returned(ROLL_UNIFORM, <<>>, None,
                <<ImportError(tab, None, "Missing required column 'type'.")>>)
       ELSE
       Let(_detect_mode(tab, hm, data), LAMBDA dm :
       IF dm.mode = ROLL_RANGE /\ RangeKeyError(hm, data) THEN Raised
       ELSE
       Let(KeptRows(dm.mode, hm, data, "type"), LAMBDA kept :
       Let(DictFromKeys(ResultsOf(kept), {}), LAMBDA types :
       LET errors == dm.errors
               \o (IF dm.mode = ROLL_RANGE
                   THEN _validate_ranges(tab, hm, data) ELSE <<>>)
               \o (IF types = <<>>
                   THEN <<ImportError(tab, None, "No types found.")>>
                   ELSE <<>>)
       IN Returned(dm.mode, types,
                   IF dm.mode = ROLL_RANGE THEN MaxRollOf(kept) ELSE None,
                   errors)))))

_parse_result_tab(wb, tab) ==
    IF tab \notin SheetNames(wb)
    THEN Returned(ROLL_UNIFORM, <<>>, None,
                  <<ImportError(tab, None, "Missing required tab.")>>)
    ELSE
    Let(_read_sheet_rows(SheetOf(wb, tab)), LAMBDA rd :
    LET hm == rd.header_map
        data == rd.data
    IN IF "result" \notin DOMAIN hm
       THEN Returned(ROLL_UNIFORM, <<>>, None,
                <<ImportError(tab, None, "Missing required column 'result'.")>>)
       ELSE
       Let(_detect_mode(tab, hm, data), LAMBDA dm :
       IF dm.mode = ROLL_RANGE /\ RangeKeyError(hm, data) THEN Raised
       ELSE
       Let(KeptRows(dm.mode, hm, data, "result"), LAMBDA entries :
       LET errors == dm.errors
               \o (IF dm.mode = ROLL_RANGE
                   THEN _validate_ranges(tab, hm, data) ELSE <<>>)
               \o (IF entries = <<>>
                   THEN <<ImportError(tab, None, "No results found.")>>
                   ELSE <<>>)
       IN Returned(dm.mode, entries,
                   IF dm.mode = ROLL_RANGE THEN MaxRollOf(entries) ELSE None,
                   errors))))

(* the loop of _parse_regions_tab: acc = [regions, errs, seen] *)
RECURSIVE RegionRows(_, _, _)
RegionRows(data, hm, acc) ==
    IF data = <<>> THEN acc
    ELSE
    LET r == Head(data)
        Bad(msg) == [acc EXCEPT !.errs =
                        Append(@, ImportError("Regions", Some(r.row_no), msg))]
        Step(rid, name) ==
            IF rid = None THEN Bad("region_id must be an integer.")
            ELSE IF rid[1] <= 0 THEN Bad("region_id must be a positive integer.")
            ELSE IF name = "" THEN Bad("region_name is required.")
            ELSE IF rid[1] \in acc.seen
            THEN Bad("Duplicate region_id " \o IntStr(rid[1]) \o ".")
            ELSE [regions |-> Append(acc.regions,
                                     [region_id |-> rid[1], region_name |-> name]),
                  errs |-> acc.errs,
                  seen |-> acc.seen \cup {rid[1]}]
    IN RegionRows(Tail(data), hm,
                  Step(_to_int(Cell(r, hm, "region_id")),
                       _cell_str(Cell(r, hm, "region_name"))))

_parse_regions_tab(wb) ==
    IF "Regions" \notin SheetNames(wb)
    THEN [regions |-> <<>>, errs |-> <<>>]
    ELSE
    Let(_read_sheet_rows(SheetOf(wb, "Regions")), LAMBDA rd :
    LET hm == rd.header_map
    IN IF "region_id" \notin DOMAIN hm \/ "region_name" \notin DOMAIN hm
       THEN [regions |-> <<>>,
             errs |-> <<ImportError("Regions", None,
                 "Regions tab must have columns: region_id, region_name.")>>]
       ELSE Let(RegionRows(rd.data, hm,
                    [regions |-> <<>>, errs |-> <<>>, seen |-> {}]),
                LAMBDA acc : [regions |-> acc.regions, errs |-> acc.errs]))

(* sheet titles; region_id is an Optional[int] *)
_enc_type_tab(region_id) ==
    IF region_id = None THEN "Encounter Types"
    ELSE "Encounter Types - " \o IntStr(region_id[1])

_enc_tab(region_id, t) ==
    IF region_id = None THEN "Encounter - " \o t
    ELSE "Encounter - " \o IntStr(region_id[1]) \o " - " \o t

_rew_tab(region_id, t) ==
    IF region_id = None THEN "Reward - " \o t
    ELSE "Reward - " \o IntStr(region_id[1]) \o " - " \o t

-----------------------------------------------------------------------------
(* import_workbook_bytes, phase 1: parse and validate, src/importer.py      *)

Range(s) == {s[i] : i \in 1..Len(s)}

(* the errors of one iteration of the required-tabs loop *)
MissingTabs(wb, region_id, t) ==
    (IF _enc_tab(region_id, t) \notin SheetNames(wb)
     THEN <<ImportError(_enc_tab(region_id, t), None,
              "Missing tab for encounter type '" \o t \o "'.")>>
     ELSE <<>>)
    \o (IF _rew_tab(region_id, t) \notin SheetNames(wb)
        THEN <<ImportError(_rew_tab(region_id, t), None,
                 "Missing tab for reward type '" \o t \o "'.")>>
        ELSE <<>>)

(* enc_tables[t] / rew_tables[t] *)
Table(tab, pr) ==
    [tab |-> tab, mode |-> pr.mode, entries |-> pr.items, max_roll |-> pr.max_roll]

(* the two loops over types calling _parse_result_tab: the parser's        *)
(* outcome for every Encounter and Reward sheet, by sheet title            *)
ParseResultTabs(wb, region_id, types) ==
    DictOf(LAMBDA tab : _parse_result_tab(wb, tab),
           MapSeq(LAMBDA t : _enc_tab(region_id, t), types)
           \o MapSeq(LAMBDA t : _rew_tab(region_id, t), types))

(* one iteration of `for region_id in region_ids`; errors is the list      *)
(* accumulated so far, over all earlier regions                            *)
ParseRegion(wb, region_id, errors) ==
    Let(_parse_type_tab(wb, _enc_type_tab(region_id)), LAMBDA tt :
    IF tt.exc THEN [exc |-> TRUE, errors |-> errors, blob |-> None]
    ELSE IF tt.errors # <<>>
    THEN [exc |-> FALSE, errors |-> errors \o tt.errors, blob |-> None]
    ELSE
    Let(errors \o FlatMap(LAMBDA t : MissingTabs(wb, region_id, t), tt.items),
        LAMBDA errors2 :
    IF errors2 # <<>> THEN [exc |-> FALSE, errors |-> errors2, blob |-> None]
    ELSE
    Let(ParseResultTabs(wb, region_id, tt.items), LAMBDA pr :
    IF \E tab \in DOMAIN pr : pr[tab].exc
    THEN [exc |-> TRUE, errors |-> errors2, blob |-> None]
    ELSE
    Let(errors2
        \o FlatMap(LAMBDA t : pr[_enc_tab(region_id, t)].errors, tt.items)
        \o FlatMap(LAMBDA t : pr[_rew_tab(region_id, t)].errors, tt.items),
        LAMBDA errors3 :
    IF errors3 # <<>> THEN [exc |-> FALSE, errors |-> errors3, blob |-> None]
    ELSE
    [exc |-> FALSE, errors |-> errors3,
     blob |-> Some(
        [region_id |-> region_id,
         enc_type |-> [tab |-> _enc_type_tab(region_id), mode |-> tt.mode,
                       max_roll |-> tt.max_roll, types |-> tt.items],
         enc_tables |-> DictOf(LAMBDA t : Table(_enc_tab(region_id, t),
                                                pr[_enc_tab(region_id, t)]),
                               tt.items),
         rew_tables |-> DictOf(LAMBDA t : Table(_rew_tab(region_id, t),
                                                pr[_rew_tab(region_id, t)]),
                               tt.items)])]))))

(* the loop over region_ids: acc = [exc, errors, parsed_regions] *)
RECURSIVE ParseRegions(_, _, _)
ParseRegions(wb, region_ids, acc) ==
    IF region_ids = <<>> \/ acc.exc THEN acc
    ELSE Let(ParseRegion(wb, Head(region_ids), acc.errors), LAMBDA r :
             ParseRegions(wb, Tail(region_ids),
                 [exc |-> r.exc, errors |-> r.errors,
                  parsed_regions |-> acc.parsed_regions \o r.blob]))

EntryCount(tables, types) ==
    SumSeq([i \in 1..Len(types) |-> Len(tables[types[i]].entries)])

ImportCounts(parsed_regions, regions, regional_mode) ==
    LET Types(b) == <<Len(b.enc_type.types)>>
        Enc(b) == <<EntryCount(b.enc_tables, b.enc_type.types)>>
        Rew(b) == <<EntryCount(b.rew_tables, b.enc_type.types)>>
    IN [encounter_types |-> SumSeq(FlatMap(Types, parsed_regions)),
        encounter_entries |-> SumSeq(FlatMap(Enc, parsed_regions)),
        reward_types |-> SumSeq(FlatMap(Types, parsed_regions)),
        reward_entries |-> SumSeq(FlatMap(Rew, parsed_regions)),
        regions |-> IF regional_mode THEN Len(regions) ELSE 0]

NoCounts == None

(* Outcome of lines 377-457: kind "raised" (an exception leaves the call), *)
(* "errors" (return None, errors) or "parsed" (phase 2 follows)            *)
ParseWorkbook(wb) ==
    Let(_parse_regions_tab(wb), LAMBDA pr :
    LET regional_mode == "Regions" \in SheetNames(wb)
        region_ids == IF regional_mode
                      THEN MapSeq(LAMBDA r : Some(r.region_id), pr.regions)
                      ELSE <<None>>
        Out(kind, errors, parsed) ==
            [kind |-> kind, errors |-> errors, regional_mode |-> regional_mode,
             regions |-> pr.regions, parsed_regions |-> parsed]
    IN IF regional_mode /\ pr.errs # <<>> THEN Out("errors", pr.errs, <<>>)
       ELSE IF regional_mode /\ pr.regions = <<>>
       THEN Out("errors", <<ImportError("Regions", None,
                    "Regions tab is present but has no valid rows.")>>, <<>>)
       ELSE Let(ParseRegions(wb, region_ids,
                    [exc |-> FALSE, errors |-> pr.errs, parsed_regions |-> <<>>]),
                LAMBDA acc :
                IF acc.exc THEN Out("raised", <<>>, <<>>)
                ELSE IF acc.errors # <<>> THEN Out("errors", acc.errors, <<>>)
                ELSE Out("parsed", <<>>, acc.parsed_regions)))

-----------------------------------------------------------------------------
(* The SQLite store.  A database value is the committed content of the     *)
(* four tables; seq is the AUTOINCREMENT high-water mark of table_def.     *)
(* table_entry is kept in rowid order.  written_for is no column: for the  *)
(* statement of properties it keeps, for each table_entry row, the tenant  *)
(* whose import inserted it.                                               *)

EmptyDb == [guild_config |-> {}, region |-> {}, table_def |-> {},
            table_entry |-> <<>>, seq |-> 0, written_for |-> <<>>]

MaxId(ids) == IF ids = {} THEN 0 ELSE CHOOSE m \in ids : \A x \in ids : x <= m

(* The id SQLite gives a new table_def row: with AUTOINCREMENT one more    *)
(* than the largest id ever used, otherwise one more than the largest id   *)
(* now in the table.                                                       *)
NewRowId(d, autoinc) ==
    LET top == MaxId({r.id : r \in d.table_def})
    IN IF autoinc THEN Max(top, d.seq) + 1 ELSE top + 1

(* build_type_entries_from_sheet: the encounter_type entries are read from *)
(* the types sheet again, at insert time                                   *)
build_type_entries_from_sheet(wb, region_id) ==
    Let(_read_sheet_rows(SheetOf(wb, _enc_type_tab(region_id))), LAMBDA rd :
        KeptRows(_detect_mode(_enc_type_tab(region_id), rd.header_map, rd.data).mode,
                 rd.header_map, rd.data, "type"))

InsertTable(guild_id, group_key, region_id, type_key, roll_mode, max_roll, updated_at) ==
    [op |-> "insert_table",
     row |-> [guild_id |-> guild_id, group_key |-> group_key,
              region_id |-> region_id, type_key |-> type_key,
              roll_mode |-> roll_mode, max_roll |-> max_roll,
              updated_at |-> updated_at]]

(* insert_entries(table_id, entries): one INSERT per entry, sort_order = i *)
InsertEntries(entries) ==
    [i \in 1..Len(entries) |->
        [op |-> "insert_entry", e |-> entries[i], sort_order |-> i - 1]]

(* the statements of one iteration of `for region_blob in parsed_regions` *)
RegionStatements(wb, guild_id, updated_at, blob) ==
    LET Typed(t) ==
            <<InsertTable(guild_id, "encounter", blob.region_id, Some(t),
                          blob.enc_tables[t].mode, blob.enc_tables[t].max_roll,
                          updated_at)>>
            \o InsertEntries(blob.enc_tables[t].entries)
            \o <<InsertTable(guild_id, "reward", blob.region_id, Some(t),
                             blob.rew_tables[t].mode, blob.rew_tables[t].max_roll,
                             updated_at)>>
            \o InsertEntries(blob.rew_tables[t].entries)
    IN <<InsertTable(guild_id, "encounter_type", blob.region_id, None,
                     blob.enc_type.mode, blob.enc_type.max_roll, updated_at)>>
       \o InsertEntries(build_type_entries_from_sheet(wb, blob.region_id))
       \o FlatMap(Typed, blob.enc_type.types)

(* an import that does not delete the tenant's Region rows *)
ImportStatements_KeepsRegions(wb, guild_id, updated_at, parsed) ==
    LET InsRegion(i) ==
            <<[op |-> "insert_region",
               row |-> [guild_id |-> guild_id,
                        region_id |-> parsed.regions[i].region_id,
                        region_name |-> parsed.regions[i].region_name,
                        sort_order |-> i - 1]]>>
        Blob(b) == RegionStatements(wb, guild_id, updated_at, b)
    IN <<[op |-> "upsert_guild_config", guild_id |-> guild_id,
          updated_at |-> updated_at],
         [op |-> "delete_table_def", guild_id |-> guild_id]>>
       \o (IF parsed.regional_mode
           THEN FlatMap(InsRegion, [i \in 1..Len(parsed.regions) |-> i])
           ELSE <<>>)
       \o FlatMap(Blob, parsed.parsed_regions)
       \o <<[op |-> "commit"]>>

(* The statements import_workbook_bytes executes inside its try block, in  *)
(* order, for a parsed workbook                                            *)
ImportStatements(wb, guild_id, updated_at, parsed) ==
    LET InsRegion(i) ==
            <<[op |-> "insert_region",
               row |-> [guild_id |-> guild_id,
                        region_id |-> parsed.regions[i].region_id,
                        region_name |-> parsed.regions[i].region_name,
                        sort_order |-> i - 1]]>>
        Blob(b) == RegionStatements(wb, guild_id, updated_at, b)
    IN <<[op |-> "upsert_guild_config", guild_id |-> guild_id,
          updated_at |-> updated_at],
         [op |-> "delete_table_def", guild_id |-> guild_id],
         [op |-> "delete_region", guild_id |-> guild_id]>>
       \o (IF parsed.regional_mode
           THEN FlatMap(InsRegion, [i \in 1..Len(parsed.regions) |-> i])
           ELSE <<>>)
       \o FlatMap(Blob, parsed.parsed_regions)
       \o <<[op |-> "commit"]>>

DeleteStatements_KeepsRegions(guild_id) ==
    <<[op |-> "delete_table_def", guild_id |-> guild_id],
      [op |-> "delete_guild_config", guild_id |-> guild_id],
      [op |-> "commit"]>>

(* delete_guild_data, src/delete_cmd.py *)
DeleteStatements(guild_id) ==
    <<[op |-> "delete_region", guild_id |-> guild_id],
      [op |-> "delete_table_def", guild_id |-> guild_id],
      [op |-> "delete_guild_config", guild_id |-> guild_id],
      [op |-> "commit"]>>

(* Connections are opened with aiosqlite.connect and never execute         *)
(* PRAGMA foreign_keys = ON, so SQLite enforces no foreign key and no      *)
(* ON DELETE action on them: a DELETE removes the rows it names only.      *)
ForeignKeysEnforced == FALSE

DeleteTableDef_KeepsRows(d, guild_id) == d

DeleteTableDef(d, guild_id) ==
    LET gone == {r.id : r \in {x \in d.table_def : x.guild_id = guild_id}}
    IN [d EXCEPT
          !.table_def = {r \in @ : r.guild_id # guild_id},
          !.table_entry = IF ForeignKeysEnforced
                          THEN SelectSeq(@, LAMBDA e : e.table_id \notin gone)
                          ELSE @,
          !.written_for = IF ForeignKeysEnforced
                          THEN FlatMap(LAMBDA k : IF d.table_entry[k].table_id \in gone
                                                  THEN <<>> ELSE <<d.written_for[k]>>,
                                       [k \in 1..Len(d.table_entry) |-> k])
                          ELSE @]

(* The effect of one statement on the connection's view of the database;   *)
(* table_id is the lastrowid of the latest insert_table                   *)
Execute(st, d, table_id, autoinc) ==
    CASE st.op = "upsert_guild_config" ->
           [d EXCEPT !.guild_config =
               {r \in @ : r.guild_id # st.guild_id}
               \cup {[guild_id |-> st.guild_id, updated_at |-> st.updated_at]}]
      [] st.op = "delete_table_def" -> DeleteTableDef(d, st.guild_id)
      [] st.op = "delete_region" ->
           [d EXCEPT !.region = {r \in @ : r.guild_id # st.guild_id}]
      [] st.op = "delete_guild_config" ->
           [d EXCEPT !.guild_config = {r \in @ : r.guild_id # st.guild_id}]
      [] st.op = "insert_region" -> [d EXCEPT !.region = @ \cup {st.row}]
      [] st.op = "insert_table" ->
           LET id == NewRowId(d, autoinc)
           IN [d EXCEPT
                 !.table_def = @ \cup
                     {[id |-> id, guild_id |-> st.row.guild_id,
                       group_key |-> st.row.group_key,
                       region_id |-> st.row.region_id,
                       type_key |-> st.row.type_key,
                       roll_mode |-> st.row.roll_mode,
                       max_roll |-> st.row.max_roll,
                       updated_at |-> st.row.updated_at]},
                 !.seq = IF autoinc THEN id ELSE @]
      [] st.op = "insert_entry" ->
           [d EXCEPT !.table_entry =
               Append(@, [table_id |-> table_id, min_roll |-> st.e.min,
                          max_roll |-> st.e.max, weight |-> st.e.weight,
                          result |-> st.e.result, sort_order |-> st.sort_order]),
              !.written_for =
                  Append(@, (CHOOSE r \in d.table_def : r.id = table_id).guild_id)]
      [] OTHER -> d

(* cur.lastrowid after the statement *)
LastRowId(st, d, table_id, autoinc) ==
    IF st.op = "insert_table" THEN NewRowId(d, autoinc) ELSE table_id

-----------------------------------------------------------------------------
(* The exporter, src/download.py *)

(* SELECT ... FROM region WHERE guild_id = ? ORDER BY sort_order, region_id *)
RECURSIVE OrderRegions(_)
OrderRegions(rows) ==
    IF rows = {} THEN <<>>
    ELSE LET first == CHOOSE r \in rows : \A q \in rows :
                 \/ r.sort_order < q.sort_order
                 \/ (r.sort_order = q.sort_order /\ r.region_id <= q.region_id)
         IN <<first>> \o OrderRegions(rows \ {first})

_fetch_regions(d, guild_id) ==
    OrderRegions({r \in d.region : r.guild_id = guild_id})

(* fetchone() of the rows matching the key, region_id IS ? and type_key    *)
(* IS ? matching NULL with NULL; the first row in rowid order, None when   *)
(* there is none                                                           *)
_fetch_table_def(d, guild_id, group_key, region_id, type_key) ==
    LET rows == {r \in d.table_def :
                    /\ r.guild_id = guild_id
                    /\ r.group_key = group_key
                    /\ r.region_id = region_id
                    /\ r.type_key = type_key}
    IN IF rows = {} THEN None
       ELSE Some(CHOOSE r \in rows : \A q \in rows : r.id <= q.id)

(* SELECT ... FROM table_entry WHERE table_id = ? ORDER BY sort_order ASC; *)
(* rows of equal sort_order come in rowid order                            *)
_fetch_table_entries(d, table_id) ==
    LET rows == SelectSeq(d.table_entry, LAMBDA e : e.table_id = table_id)
        top == MaxId({rows[i].sort_order : i \in 1..Len(rows)})
        Rank(k) == SelectSeq(rows, LAMBDA e : e.sort_order = k - 1)
    IN FlatMap(Rank, [k \in 1..(top + 1) |-> k])

(* a database value written to a cell *)
OptIntCell(o) == IF o = None THEN NoneCell ELSE IntCell(o[1])

(* Workbook.create_sheet(title): a title already in use gets the next      *)
(* highest integer appended                                                *)
AvoidDuplicateName(names, title) ==
    IF title \notin names THEN title
    ELSE LET used == {k \in 1..Cardinality(names) : (title \o IntStr(k)) \in names}
         IN title \o IntStr(MaxId(used) + 1)

_add_sheet_for_table(wb, title, kind, roll_mode, entries) ==
    LET headers == IF roll_mode = "range"
                   THEN <<TextCell("min"), TextCell("max"), TextCell(kind)>>
                   ELSE IF roll_mode = "weight"
                   THEN <<TextCell("weight"), TextCell(kind)>>
                   ELSE <<TextCell(kind)>>
        Row(e) == IF roll_mode = "range"
                  THEN <<OptIntCell(e.min_roll), OptIntCell(e.max_roll),
                         TextCell(e.result)>>
                  ELSE IF roll_mode = "weight"
                  THEN <<OptIntCell(e.weight), TextCell(e.result)>>
                  ELSE <<TextCell(e.result)>>
    IN Append(wb, [title |-> AvoidDuplicateName(SheetNames(wb), title),
                   sheet |-> [header |-> headers,
                              rows |-> [i \in 1..Len(entries) |-> Row(entries[i])]]])

(* the two sheets of one type: `for t in types` body *)
AddTypedSheets(d, guild_id, region_id, wb, t) ==
    LET enc_def == _fetch_table_def(d, guild_id, "encounter", region_id, Some(t))
        wb1 == IF enc_def = None THEN wb
               ELSE _add_sheet_for_table(wb, _enc_tab(region_id, t), "result",
                        enc_def[1].roll_mode,
                        _fetch_table_entries(d, enc_def[1].id))
        rew_def == _fetch_table_def(d, guild_id, "reward", region_id, Some(t))
    IN IF rew_def = None THEN wb1
       ELSE _add_sheet_for_table(wb1, _rew_tab(region_id, t), "result",
                rew_def[1].roll_mode,
                _fetch_table_entries(d, rew_def[1].id))

RECURSIVE AddAllTyped(_, _, _, _, _)
AddAllTyped(d, guild_id, region_id, wb, types) ==
    IF types = <<>> THEN wb
    ELSE AddAllTyped(d, guild_id, region_id,
             AddTypedSheets(d, guild_id, region_id, wb, Head(types)), Tail(types))

(* the types sheet and the typed sheets of one region (or of the default   *)
(* pass) whose encounter_type table is enc_type_def                        *)
AddRegionSheets(d, guild_id, region_id, wb, enc_type_def) ==
    LET enc_type_entries == _fetch_table_entries(d, enc_type_def.id)
        wb1 == _add_sheet_for_table(wb, _enc_type_tab(region_id), "type",
                   enc_type_def.roll_mode, enc_type_entries)
        types == SelectSeq(ResultsOf(enc_type_entries), LAMBDA t : t # "")
    IN AddAllTyped(d, guild_id, region_id, wb1, types)

RECURSIVE AddAllRegions(_, _, _, _)
AddAllRegions(d, guild_id, wb, regions) ==
    IF regions = <<>> THEN wb
    ELSE LET rid == Some(Head(regions).region_id)
             enc_type_def == _fetch_table_def(d, guild_id, "encounter_type", rid, None)
         IN AddAllRegions(d, guild_id,
                IF enc_type_def = None THEN wb
                ELSE AddRegionSheets(d, guild_id, rid, wb, enc_type_def[1]),
                Tail(regions))

(* build_workbook_bytes: kind "workbook", or "raised" for the RuntimeError *)
(* "No imported data found. Run /import first."                            *)
build_workbook_bytes(d, guild_id) ==
    LET regions == _fetch_regions(d, guild_id)
        regions_sheet ==
            [title |-> "Regions",
             sheet |-> [header |-> <<TextCell("region_id"), TextCell("region_name")>>,
                        rows |-> [i \in 1..Len(regions) |->
                                     <<IntCell(regions[i].region_id),
                                       TextCell(regions[i].region_name)>>]]]
        enc_type_def == _fetch_table_def(d, guild_id, "encounter_type", None, None)
    IN IF Len(regions) > 0
       THEN [kind |-> "workbook",
             wb |-> AddAllRegions(d, guild_id, <<regions_sheet>>, regions)]
       ELSE IF enc_type_def = None
       THEN [kind |-> "raised", wb |-> <<>>]
       ELSE [kind |-> "workbook",
             wb |-> AddRegionSheets(d, guild_id, None, <<>>, enc_type_def[1])]

-----------------------------------------------------------------------------
(* The roller, src/roller.py.  Every call of the random module is given    *)
(* the number it draws: the index of random.choice, or the value of        *)
(* random.randint.                                                         *)

RollReturned(result, meta) ==
    [kind |-> "returned", result |-> result, meta |-> meta, msg |-> ""]

RollRaised(exc, msg) ==
    [kind |-> "raised", result |-> "", meta |-> exc, msg |-> msg]

(* str() of an Optional[int] and of an Optional[str] in an f-string *)
OptIntStr(o) == IF o = None THEN "None" ELSE IntStr(o[1])

OptStr(o) == IF o = None THEN "None" ELSE o[1]

RECURSIVE PickLoop_Strict(_, _, _)
PickLoop_Strict(items, r, acc) ==
    IF items = <<>> THEN None
    ELSE IF r < acc + Head(items).w THEN Some(Head(items).val)
    ELSE PickLoop_Strict(Tail(items), r, acc + Head(items).w)

(* the loop of _pick_weighted: the value returned inside the loop, None    *)
(* when the loop ends without returning                                    *)
RECURSIVE PickLoop(_, _, _)
PickLoop(items, r, acc) ==
    IF items = <<>> THEN None
    ELSE IF r <= acc + Head(items).w THEN Some(Head(items).val)
    ELSE PickLoop(Tail(items), r, acc + Head(items).w)

(* total = sum(w for _, w in items) *)
TotalWeight(items) == SumSeq(MapSeq(LAMBDA it : it.w, items))

(* _pick_weighted with r the value of random.randint(1, total) *)
_pick_weighted(items, r) ==
    Let(PickLoop(items, r, 0), LAMBDA picked :
        IF picked = None THEN items[Len(items)].val ELSE picked[1])

RollTableDef_AnyRegion(d, guild_id, group_key, region_id, type_key) ==
    LET rows == {r \in d.table_def : /\ r.guild_id = guild_id
                                     /\ r.group_key = group_key
                                     /\ r.type_key = type_key}
    IN IF rows = {} THEN None
       ELSE Some(CHOOSE r \in rows : \A q \in rows : r.id <= q.id)

(* SELECT id, roll_mode, max_roll FROM table_def WHERE ...; fetchone() *)
RollTableDef(d, guild_id, group_key, region_id, type_key) ==
    _fetch_table_def(d, guild_id, group_key, region_id, type_key)

(* SELECT ... FROM table_entry WHERE table_id = ? ORDER BY sort_order ASC *)
RollRows(d, table_id) == _fetch_table_entries(d, table_id)

(* items = [(r["result"], r["weight"]) for r in rows if r["weight"] is not None] *)
WeightItems(rows) ==
    FlatMap(LAMBDA r : IF r.weight = None THEN <<>>
                       ELSE <<[val |-> r.result, w |-> r.weight[1]]>>, rows)

RECURSIVE RangeLoop_Strict(_, _)
RangeLoop_Strict(rows, roll) ==
    IF rows = <<>> THEN None
    ELSE IF Head(rows).min_roll = None \/ Head(rows).max_roll = None
    THEN RangeLoop_Strict(Tail(rows), roll)
    ELSE IF Head(rows).min_roll[1] < roll /\ roll <= Head(rows).max_roll[1]
    THEN Some(Head(rows).result)
    ELSE RangeLoop_Strict(Tail(rows), roll)

(* the loop over rows of a range table for the drawn roll *)
RECURSIVE RangeLoop(_, _)
RangeLoop(rows, roll) ==
    IF rows = <<>> THEN None
    ELSE IF Head(rows).min_roll = None \/ Head(rows).max_roll = None
    THEN RangeLoop(Tail(rows), roll)
    ELSE IF Head(rows).min_roll[1] <= roll /\ roll <= Head(rows).max_roll[1]
    THEN Some(Head(rows).result)
    ELSE RangeLoop(Tail(rows), roll)

(* the part of roll_from_table after both SELECTs; t is the table_def row *)
RollRowsOf(t, rows, draw) ==
    IF rows = <<>> THEN RollRaised("RuntimeError", "Table has no entries")
    ELSE IF t.roll_mode = "uniform" THEN RollReturned(rows[draw].result, "uniform")
    ELSE IF t.roll_mode = "weight"
    THEN Let(WeightItems(rows), LAMBDA items :
             IF items = <<>>
             THEN RollRaised("RuntimeError", "Weight mode table has no valid weights")
             ELSE IF TotalWeight(items) < 1
             THEN RollRaised("ValueError", "empty range for randrange()")
             ELSE RollReturned(_pick_weighted(items, draw), "weight"))
    ELSE IF t.roll_mode = "range"
    THEN IF t.max_roll = None \/ t.max_roll = Some(0)
         THEN RollRaised("RuntimeError", "Range mode table missing max_roll")
         ELSE IF t.max_roll[1] < 1
         THEN RollRaised("ValueError", "empty range for randrange()")
         ELSE Let(RangeLoop(rows, draw), LAMBDA hit :
                  IF hit = None
                  THEN RollRaised("RuntimeError",
                                  "No range matched roll " \o IntStr(draw))
                  ELSE RollReturned(hit[1], "range d" \o IntStr(t.max_roll[1])
                                            \o "=" \o IntStr(draw)))
    ELSE RollRaised("RuntimeError", "Unknown roll_mode " \o t.roll_mode)

roll_from_table(d, guild_id, group_key, region_id, type_key, draw) ==
    Let(RollTableDef(d, guild_id, group_key, region_id, type_key), LAMBDA t :
        IF t = None
        THEN RollRaised("RuntimeError",
                 "Missing table: " \o group_key \o " region=" \o OptIntStr(region_id)
                 \o " type=" \o OptStr(type_key))
        ELSE RollRowsOf(t[1], RollRows(d, t[1].id), draw))

(* the values the random call of a roll on table t can return: the indexes *)
(* of random.choice(rows), or 1..total, or 1..max_roll; one value when the *)
(* roll makes no random call                                               *)
NumDraws(t, rows) ==
    IF rows = <<>> THEN 1
    ELSE IF t.roll_mode = "uniform" THEN Len(rows)
    ELSE IF t.roll_mode = "weight" THEN Max(1, TotalWeight(WeightItems(rows)))
    ELSE IF t.roll_mode = "range" /\ t.max_roll # None THEN Max(1, t.max_roll[1])
    ELSE 1

DrawsOf(d, guild_id, group_key, region_id, type_key) ==
    Let(RollTableDef(d, guild_id, group_key, region_id, type_key), LAMBDA t :
        IF t = None THEN {1} ELSE 1..NumDraws(t[1], RollRows(d, t[1].id)))

-----------------------------------------------------------------------------
(* Command helpers, src/bot.py *)

(* get_regions: [(region_id, region_name)] ordered by sort_order, region_id *)
get_regions(d, guild_id) ==
    MapSeq(LAMBDA r : <<r.region_id, r.region_name>>, _fetch_regions(d, guild_id))

(* get_region_name: fetchone() of the rows with the region's id *)
get_region_name(d, guild_id, region_id) ==
    Let(SelectSeq(_fetch_regions(d, guild_id), LAMBDA r : r.region_id = region_id),
        LAMBDA rows : IF rows = <<>> THEN None ELSE Some(rows[1].region_name))

(* db_has_any_tables *)
db_has_any_tables(d, guild_id) == \E r \in d.table_def : r.guild_id = guild_id

(* the embed built from the three rolls *)
Embed(title, enc_type, encounter, reward) ==
    [kind |-> "embed",
     embed |-> <<title, enc_type.result, encounter.result, reward.result,
                 "Type: " \o enc_type.meta \o " | Encounter: " \o encounter.meta
                 \o " | Reward: " \o reward.meta>>]

EmbedTitle(d, guild_id, region) ==
    IF region = None THEN "Random Encounter"
    ELSE Let(get_region_name(d, guild_id, region[1]), LAMBDA region_label :
             IF region_label = None THEN "Random Encounter"
             ELSE "Random Encounter: " \o region_label[1])

(* roll_encounter_embed with the three draws of its rolls; a roll that     *)
(* raises ends the call                                                    *)
roll_encounter_embed(d, guild_id, region, draws) ==
    Let(roll_from_table(d, guild_id, "encounter_type", region, None, draws[1]),
        LAMBDA enc_type :
    IF enc_type.kind = "raised" THEN enc_type
    ELSE
    Let(roll_from_table(d, guild_id, "encounter", region, Some(enc_type.result),
                        draws[2]), LAMBDA encounter :
    IF encounter.kind = "raised" THEN encounter
    ELSE
    Let(roll_from_table(d, guild_id, "reward", region, Some(enc_type.result),
                        draws[3]), LAMBDA reward :
    IF reward.kind = "raised" THEN reward
    ELSE Embed(EmbedTitle(d, guild_id, region), enc_type, encounter, reward))))

(* the draws the three rolls of roll_encounter_embed can make; a roll that *)
(* is not reached draws 1                                                  *)
EncounterDraws(d, guild_id, region) ==
    UNION {
        Let(roll_from_table(d, guild_id, "encounter_type", region, None, d1),
            LAMBDA enc_type :
            IF enc_type.kind = "raised" THEN {<<d1, 1, 1>>}
            ELSE {<<d1, d2, d3>> :
                    d2 \in DrawsOf(d, guild_id, "encounter", region,
                                   Some(enc_type.result)),
                    d3 \in DrawsOf(d, guild_id, "reward", region,
                                   Some(enc_type.result))})
        : d1 \in DrawsOf(d, guild_id, "encounter_type", region, None)}

-----------------------------------------------------------------------------
(* Input workbooks.  A workbook is assembled from a Regions sheet variant  *)
(* and, per region, a types sheet variant, an Encounter sheet variant, a   *)
(* Reward sheet variant and the sheets left out.                           *)

T(s) == TextCell(s)

I(n) == IntCell(n)

Header(names) == [i \in 1..Len(names) |-> TextCell(names[i])]

Sheet(names, rows) == [header |-> Header(names), rows |-> rows]

(* types sheets; kind is the name of the value column *)
TypeSheets(kind) ==
    << Sheet(<<kind>>, << <<T("a")>> >>),
       Sheet(<<kind>>, << <<T("a")>>, <<T("b")>> >>),
       Sheet(<<kind>>, << <<T("a")>>, <<T(" a")>> >>),
       Sheet(<<"Weight", kind>>, << <<I(2), T("a")>>, <<I(1), T("b")>> >>),
       Sheet(<<"min", "max", kind>>,
             << <<I(1), I(2), T("a")>>, <<I(3), I(4), T("b")>> >>),
       Sheet(<<"min", "max", kind>>,
             << <<I(1), I(3), T("a")>>, <<I(2), I(4), T("b")>> >>),
       Sheet(<<"min", kind>>, << <<I(1), T("a")>> >>),
       Sheet(<<"name">>, << <<T("a")>> >>),
       Sheet(<<"weight", kind>>, << <<T("x"), T("a")>>, <<I(1), T("b")>> >>),
       Sheet(<<"min", "max", kind>>,
             << <<I(1), NoneCell, T("a")>>, <<I(2), I(3), T("b")>> >>),
       Sheet(<<"weight", kind>>, << <<I(0), T("a")>>, <<I(1), T("b")>> >>) >>

(* Encounter and Reward sheets *)
ResultSheets ==
    << Sheet(<<"result">>, << <<T("x")>> >>),
       Sheet(<<"Result">>, << <<T("x")>>, <<NoneCell>>, <<T("y")>> >>),
       Sheet(<<"weight", "result">>, << <<I(1), T("x")>>, <<I(2), T("y")>> >>),
       Sheet(<<"min", "max", "result">>,
             << <<I(1), I(1), T("x")>>, <<FloatCell(2, ".0"), T(" 2"), T("y")>> >>),
       Sheet(<<"min", "max", "result">>,
             << <<I(1), I(2), T("x")>>, <<I(2), I(3), T("y")>> >>),
       Sheet(<<"weight", "result">>, << <<I(0), T("x")>>, <<I(1), T("y")>> >>),
       Sheet(<<"min", "max", "result">>,
             << <<T("x"), I(1), T("x")>>, <<I(1), I(2), T("y")>> >>),
       Sheet(<<"max", "result">>, << <<I(1), T("x")>> >>),
       Sheet(<<"result", "weight">>, << <<T("  "), I(1)>> >>),
       Sheet(<<"min", "max", "result">>, << <<I(0 - 1), I(0), T("x")>> >>),
       Sheet(<<"min", "max", "result">>, << <<I(3), I(1), T("x")>> >>),
       Sheet(<<"weight", "result">>,
             << <<FloatCell(1, ".5"), T("x")>>, <<I(2), T("y")>> >>) >>

RegionsSheets ==
    << Sheet(<<"region_id", "region_name">>, << <<I(1), T("North")>> >>),
       Sheet(<<"region_id", "region_name">>,
             << <<I(1), T("North")>>, <<I(2), T("South")>> >>),
       Sheet(<<"region_id", "region_name">>,
             << <<I(2), T("South")>>, <<I(1), T("North")>> >>),
       Sheet(<<"region_id", "region_name">>,
             << <<I(1), T("North")>>, <<I(1), T("South")>> >>),
       Sheet(<<"region_id">>, << <<I(1)>> >>),
       Sheet(<<"region_id", "region_name">>, <<>>),
       Sheet(<<"region_id", "region_name">>, << <<I(0), T("North")>> >>) >>

(* the region ids the sheets of a regional workbook are written for *)
RegionIdsOf(regv) == IF regv = 1 THEN <<1>> ELSE <<1, 2>>

(* the type names the typed sheets of a workbook are written for *)
TypeNames == <<"a", "b">>

(* tv, ev, rv: variants of the types, Encounter and Reward sheets; miss:   *)
(* 0 nothing, 1 no Encounter sheet for "a", 2 no Reward sheet for "b",     *)
(* 3 no types sheet                                                        *)
Part(tv, ev, rv, miss) == [tv |-> tv, ev |-> ev, rv |-> rv, miss |-> miss]

PartSheets(region_id, part) ==
    LET Typed(t) ==
            (IF part.miss = 1 /\ t = "a" THEN <<>>
             ELSE <<[title |-> _enc_tab(region_id, t),
                     sheet |-> ResultSheets[part.ev]]>>)
            \o (IF part.miss = 2 /\ t = "b" THEN <<>>
                ELSE <<[title |-> _rew_tab(region_id, t),
                        sheet |-> ResultSheets[part.rv]]>>)
    IN (IF part.miss = 3 THEN <<>>
        ELSE <<[title |-> _enc_type_tab(region_id),
                sheet |-> TypeSheets("type")[part.tv]]>>)
       \o FlatMap(Typed, TypeNames)

DefaultWorkbook(part) == PartSheets(None, part)

RegionalWorkbook(regv, parts) ==
    LET ids == RegionIdsOf(regv)
        One(i) == PartSheets(Some(ids[i]), parts[i])
    IN <<[title |-> "Regions", sheet |-> RegionsSheets[regv]]>>
       \o FlatMap(One, [i \in 1..Len(ids) |-> i])

NumTypeSheets == Len(TypeSheets("type"))

NumResultSheets == Len(ResultSheets)

NumRegionsSheets == Len(RegionsSheets)

Std == Part(1, 1, 1, 0)

(* every variant of one sheet against standard other sheets *)
Parts ==
    {Part(tv, 1, 1, 0) : tv \in 1..NumTypeSheets}
    \cup {Part(2, ev, 1, 0) : ev \in 1..NumResultSheets}
    \cup {Part(1, 1, rv, 0) : rv \in {3, 4, 5}}
    \cup {Part(2, 1, 1, miss) : miss \in 1..3}

FirstParts == {Std, Part(8, 1, 1, 0), Part(2, 1, 1, 1), Part(4, 3, 4, 0)}

SecondParts == {Std, Part(2, 5, 1, 0), Part(2, 1, 1, 2), Part(7, 1, 1, 0),
                Part(5, 4, 3, 0)}

WorkbookSet ==
    {DefaultWorkbook(part) : part \in Parts}
    \cup {RegionalWorkbook(regv, <<Std, Std>>) : regv \in 1..NumRegionsSheets}
    \cup {RegionalWorkbook(2, <<p1, p2>>) : p1 \in FirstParts, p2 \in SecondParts}

(* the input workbooks, numbered; a call is given the number of one *)
Workbooks == SetToSeq(WorkbookSet)

WorkbookIds == 1..Len(Workbooks)

(* phase 1 on each input workbook, evaluated once *)
ParsedWorkbooks == [w \in WorkbookIds |-> ParseWorkbook(Workbooks[w])]

-----------------------------------------------------------------------------
(* The state machine *)

(* Tenants (guild ids) *)
NumGuilds == 2

Guilds == 1..NumGuilds

(* Number of write operations (imports reaching phase 2, deletes) in a run *)
MaxOps == 2

(* Connections: each command invocation works on a connection of its own  *)
Procs == {"c1", "c2"}

(* conn[p] holds the locals of the call connection p runs: pc, op, guild,  *)
(* wbook (the number of the workbook), stmts and i (the statements of the  *)
(* transaction and the next one), work (the uncommitted view), table_id,   *)
(* counts, ret (the outcome); and for the statement of properties pre (the *)
(* database when the call started) and failed (the statement that raised). *)
VARIABLES
    db,              \* committed content of the database file
    autoincrement,   \* whether table_def.id is declared AUTOINCREMENT
    lock,            \* the connection holding SQLite's write lock, or None
    clock,           \* write operations started so far; the source of _now_iso()
    conn,            \* per connection: the command it runs and its locals
    delete_view      \* the IrreversibleDeleteView on display, and what it has done

vars == <<db, autoincrement, lock, clock, conn, delete_view>>

NoReturn ==
    [kind |-> "none", counts |-> NoCounts, errors |-> <<>>, wb |-> <<>>, exc |-> "",
     result |-> <<>>]

ReturnedErrors(errors) ==
    [NoReturn EXCEPT !.kind = "returned", !.errors = errors]

ReturnedCounts(counts) ==
    [NoReturn EXCEPT !.kind = "returned", !.counts = Some(counts)]

RaisedException(name) ==
    [NoReturn EXCEPT !.kind = "raised", !.exc = name]

(* For a call that reads with one SELECT after the other: todo (the reads  *)
(* still to make, the next one first), acc (what the call has built so     *)
(* far) and, for the statement of properties, seen (the committed states   *)
(* its reads were answered from).                                          *)
(* for the commands: sel and draw (the selector and the random number of  *)
(* a roll), view (the regions of the prompt shown), rolled (the regions    *)
(* roll_encounter_embed was called with), admin (the invoking user's       *)
(* permission) and sent (the messages sent to the user)                    *)
IdleConn ==
    [pc |-> "idle", op |-> "none", guild |-> 0, wbook |-> 0, stmts |-> <<>>,
     i |-> 0, work |-> None, table_id |-> 0, counts |-> NoCounts,
     pre |-> EmptyDb, failed |-> None, ret |-> NoReturn,
     sel |-> <<>>, draw |-> 0, view |-> <<>>, rolled |-> <<>>,
     admin |-> FALSE, sent |-> <<>>,
     todo |-> <<>>, acc |-> <<>>, seen |-> {}]

(* The buttons of IrreversibleDeleteView and their disabled attribute after *)
(* __init__: stage 2 starts disabled                                       *)
InitialButtons == [delete_stage1 |-> FALSE, delete_stage2 |-> TRUE, delete_cancel |-> FALSE]

AllDisabled == [delete_stage1 |-> TRUE, delete_stage2 |-> TRUE, delete_cancel |-> TRUE]

(* The view: state is "none" before the command, "active" while the view   *)
(* listens, "stopped" after self.stop() and "timeout" after its 60 s;      *)
(* stage and disabled are the attributes of the object, shown and content  *)
(* the buttons and the text of the message as last sent; calls are the     *)
(* connections of the stage2 handlers awaiting delete_guild_data.  For the *)
(* statement of properties: runs (the calls of delete_guild_data made) and *)
(* log (the button events dispatched, with the user of each).              *)
NoView ==
    [state |-> "none", requester_id |-> 0, guild_id |-> 0, stage |-> 1,
     disabled |-> InitialButtons, shown |-> InitialButtons, content |-> "",
     calls |-> {}, runs |-> 0, log |-> <<>>]

Init ==
    /\ db = EmptyDb
    /\ autoincrement \in BOOLEAN
    /\ lock = None
    /\ clock = 0
    /\ conn = [p \in Procs |-> IdleConn]
    /\ delete_view = NoView

(* a finished call: its outcome is with the command handler *)
Finished(c, ret) ==
    [c EXCEPT !.pc = "done", !.stmts = <<>>, !.i = 0, !.work = None,
              !.table_id = 0, !.counts = NoCounts, !.ret = ret]

(* import_workbook_bytes up to and excluding db.execute("BEGIN"); max_ops  *)
(* bounds the write operations of a run                                    *)
ImportCallUpTo(p, g, w, max_ops) ==
    /\ conn[p].pc = "idle"
    /\ \E parsed \in {ParsedWorkbooks[w]} :
       LET called == [IdleConn EXCEPT !.op = "import", !.guild = g,
                                      !.wbook = w, !.pre = db]
       IN IF parsed.kind = "raised"
          THEN /\ conn' = [conn EXCEPT ![p] = Finished(called, RaisedException("KeyError"))]
               /\ clock' = clock
          ELSE IF parsed.kind = "errors"
          THEN /\ conn' = [conn EXCEPT ![p] = Finished(called, ReturnedErrors(parsed.errors))]
               /\ clock' = clock
          ELSE /\ clock < max_ops
               /\ clock' = clock + 1
               /\ conn' = [conn EXCEPT ![p] =
                     [called EXCEPT
                        !.pc = "begin",
                        !.stmts = ImportStatements(Workbooks[w], g, clock + 1, parsed),
                        !.i = 1,
                        !.counts = Some(ImportCounts(parsed.parsed_regions,
                                        parsed.regions, parsed.regional_mode))]]
    /\ UNCHANGED <<db, autoincrement, lock>>

ImportCall(p, g, w) == ImportCallUpTo(p, g, w, MaxOps) /\ UNCHANGED delete_view

(* delete_guild_data up to and excluding db.execute("BEGIN") *)
DeleteCallUpTo(p, g, max_ops) ==
    /\ conn[p].pc = "idle"
    /\ clock < max_ops
    /\ clock' = clock + 1
    /\ conn' = [conn EXCEPT ![p] =
          [IdleConn EXCEPT !.op = "delete", !.guild = g, !.pre = db,
                           !.pc = "begin", !.stmts = DeleteStatements(g), !.i = 1]]
    /\ UNCHANGED <<db, autoincrement, lock>>

DeleteCall(p, g) == DeleteCallUpTo(p, g, MaxOps) /\ UNCHANGED delete_view

(* db.execute("BEGIN") succeeds: a deferred transaction, no lock yet *)
Begin(p) ==
    /\ conn[p].pc = "begin"
    /\ conn' = [conn EXCEPT ![p].pc = "tx"]
    /\ UNCHANGED <<db, autoincrement, lock, clock, delete_view>>

(* db.execute("BEGIN") raises: it stands before the try block, so the     *)
(* exception leaves the call                                               *)
BeginFails(p) ==
    /\ conn[p].pc = "begin"
    /\ conn' = [conn EXCEPT ![p] =
          Finished([conn[p] EXCEPT !.failed = Some("begin")],
                   RaisedException("Error"))]
    /\ UNCHANGED <<db, autoincrement, lock, clock, delete_view>>

(* what the connection sees: its own uncommitted changes, else the file *)
View(p) == IF conn[p].work = None THEN db ELSE conn[p].work[1]

(* a statement other than COMMIT succeeds; the first one takes the write   *)
(* lock                                                                    *)
ExecStmt(p) ==
    /\ conn[p].pc = "tx"
    /\ conn[p].stmts[conn[p].i].op # "commit"
    /\ lock \in {None, Some(p)}
    /\ lock' = Some(p)
    /\ LET st == conn[p].stmts[conn[p].i]
       IN conn' = [conn EXCEPT
              ![p].work = Some(Execute(st, View(p), conn[p].table_id, autoincrement)),
              ![p].table_id = LastRowId(st, View(p), conn[p].table_id, autoincrement),
              ![p].i = @ + 1]
    /\ UNCHANGED <<db, autoincrement, clock, delete_view>>

(* the outcome of a call whose transaction committed *)
SuccessReturn(c) ==
    IF c.op = "import" THEN ReturnedCounts(c.counts[1])
    ELSE [NoReturn EXCEPT !.kind = "returned"]

(* db.commit() succeeds *)
Commit(p) ==
    /\ conn[p].pc = "tx"
    /\ conn[p].stmts[conn[p].i].op = "commit"
    /\ lock \in {None, Some(p)}
    /\ db' = View(p)
    /\ lock' = None
    /\ conn' = [conn EXCEPT ![p] = Finished(@, SuccessReturn(@))]
    /\ UNCHANGED <<autoincrement, clock, delete_view>>

(* db.rollback(): the database file after the rollback *)
Rollback(committed, work) == committed

(* the except clause: import returns a storage error, delete re-raises *)
FailureReturn(c) ==
    IF c.op = "import"
    THEN ReturnedErrors(<<ImportError("DB", None,
             "Import failed during database write: " \o "error")>>)
    ELSE RaisedException("Error")

(* a statement inside the try block (COMMIT included) raises, for         *)
(* instance because another connection holds the write lock                *)
StmtFails(p) ==
    /\ conn[p].pc = "tx"
    /\ db' = Rollback(db, View(p))
    /\ lock' = IF lock = Some(p) THEN None ELSE lock
    /\ conn' = [conn EXCEPT ![p] =
          Finished([conn[p] EXCEPT !.failed = Some(conn[p].stmts[conn[p].i].op)],
                   FailureReturn(conn[p]))]
    /\ UNCHANGED <<autoincrement, clock, delete_view>>

(* build_workbook_bytes on a fresh connection *)
DownloadCall(p, g) ==
    /\ conn[p].pc = "idle"
    /\ \E out \in {build_workbook_bytes(db, g)} :
          conn' = [conn EXCEPT ![p] =
              [IdleConn EXCEPT
                 !.pc = "done", !.op = "download", !.guild = g, !.pre = db,
                 !.ret = IF out.kind = "raised" THEN RaisedException("RuntimeError")
                         ELSE [NoReturn EXCEPT !.kind = "workbook", !.wb = out.wb]]]
    /\ UNCHANGED <<db, autoincrement, lock, clock, delete_view>>

(* the command handler has sent its reply; the connection is closed *)
Close(p) ==
    /\ conn[p].pc = "done"
    /\ conn' = [conn EXCEPT ![p] = IdleConn]
    /\ UNCHANGED <<db, autoincrement, lock, clock, delete_view>>

AllIdle == \A q \in Procs : conn[q].pc = "idle"

(* the selectors and draws given to roll_from_table *)
GroupKeys == {"encounter_type", "encounter", "reward"}

RegionArgs == {None, Some(1), Some(2)}

TypeArgs == {None, Some("a"), Some("b")}

(* the outcome of a roll as the outcome of the call *)
RollOutcome(out) ==
    IF out.kind = "raised"
    THEN [NoReturn EXCEPT !.kind = "raised", !.exc = out.meta,
                          !.result = <<out.msg>>]
    ELSE [NoReturn EXCEPT !.kind = "returned", !.result = <<out.result, out.meta>>]

(* roll_from_table on a fresh connection *)
RollCall(p, g, group_key, region_id, type_key) ==
    /\ conn[p].pc = "idle"
    /\ \E draw \in DrawsOf(db, g, group_key, region_id, type_key) :
          conn' = [conn EXCEPT ![p] =
              [IdleConn EXCEPT
                 !.pc = "done", !.op = "roll", !.guild = g, !.pre = db,
                 !.sel = <<group_key, region_id, type_key>>, !.draw = draw,
                 !.ret = RollOutcome(roll_from_table(db, g, group_key, region_id,
                                                     type_key, draw))]]
    /\ UNCHANGED <<db, autoincrement, lock, clock, delete_view>>

(* the outcome of roll_encounter_embed and the message sent with it *)
EncounterOutcome(c, region, out) ==
    [c EXCEPT !.pc = "done", !.rolled = <<region>>,
              !.ret = IF out.kind = "raised" THEN RollOutcome(out)
                      ELSE [NoReturn EXCEPT !.kind = "returned",
                                            !.result = out.embed],
              !.sent = IF out.kind = "raised" THEN @ ELSE Append(@, "embed")]

(* encounter_cmd: with exactly one region the rolls are made at once, else *)
(* the region prompt is sent                                               *)
EncounterCmd(p, g) ==
    /\ conn[p].pc = "idle"
    /\ \E regions \in {get_regions(db, g)} :
       LET called == [IdleConn EXCEPT !.op = "encounter", !.guild = g, !.pre = db]
       IN IF Len(regions) = 1
          THEN \E draws \in EncounterDraws(db, g, Some(regions[1][1])) :
                 conn' = [conn EXCEPT ![p] =
                     EncounterOutcome(called, Some(regions[1][1]),
                         roll_encounter_embed(db, g, Some(regions[1][1]), draws))]
          ELSE conn' = [conn EXCEPT ![p] =
                   [called EXCEPT !.pc = "prompt", !.view = regions,
                                  !.sent = <<"Pick a region:">>]]
    /\ UNCHANGED <<db, autoincrement, lock, clock, delete_view>>

(* the callback of a button or of the dropdown of the region prompt *)
OnPick(p) ==
    /\ conn[p].pc = "prompt"
    /\ \E i \in 1..Len(conn[p].view) :
       \E draws \in EncounterDraws(db, conn[p].guild, Some(conn[p].view[i][1])) :
          conn' = [conn EXCEPT ![p] =
              EncounterOutcome(conn[p], Some(conn[p].view[i][1]),
                  roll_encounter_embed(db, conn[p].guild,
                                       Some(conn[p].view[i][1]), draws))]
    /\ UNCHANGED <<db, autoincrement, lock, clock, delete_view>>

(* the view of the region prompt times out without a pick *)
ViewTimeout(p) ==
    /\ conn[p].pc = "prompt"
    /\ conn' = [conn EXCEPT ![p].pc = "done"]
    /\ UNCHANGED <<db, autoincrement, lock, clock, delete_view>>

(* download_cmd.  The export is sent before the permission check is        *)
(* reached; the statements after the send respond to an interaction that   *)
(* was deferred already, which raises InteractionResponded.                *)
DownloadCmd(p, g, is_admin, template_exists) ==
    /\ conn[p].pc = "idle"
    /\ LET called == [IdleConn EXCEPT !.op = "download_cmd", !.guild = g,
                                      !.pre = db, !.admin = is_admin, !.pc = "done"]
       IN IF ~db_has_any_tables(db, g)
          THEN conn' = [conn EXCEPT ![p] =
                  [called EXCEPT
                     !.ret = [NoReturn EXCEPT !.kind = "returned"],
                     !.sent = IF template_exists THEN <<"template">>
                              ELSE <<"No data imported yet">>]]
          ELSE \E out \in {build_workbook_bytes(db, g)} :
                 conn' = [conn EXCEPT ![p] =
                    IF out.kind = "raised"
                    THEN [called EXCEPT !.ret = RaisedException("RuntimeError")]
                    ELSE [called EXCEPT
                            !.ret = [RaisedException("InteractionResponded")
                                        EXCEPT !.wb = out.wb],
                            !.sent = <<"export">>]]
    /\ UNCHANGED <<db, autoincrement, lock, clock, delete_view>>

-----------------------------------------------------------------------------
(* Reads one at a time.  A connection that has not begun a transaction     *)
(* answers every SELECT from the database file as committed at that        *)
(* moment; between two SELECTs of one call other connections may commit.   *)

(* a read still to make: k is the kind of read, the other fields are the   *)
(* locals the read needs                                                   *)
ReadItem(k, group_key, region_id, type_key, def) ==
    [k |-> k, group_key |-> group_key, region_id |-> region_id,
     type_key |-> type_key, def |-> def]

(* the title of the sheet of a table of the group *)
TitleOf(group_key, region_id, type_key) ==
    IF group_key = "encounter_type" THEN _enc_type_tab(region_id)
    ELSE IF group_key = "encounter" THEN _enc_tab(region_id, type_key[1])
    ELSE _rew_tab(region_id, type_key[1])

(* One SELECT of build_workbook_bytes and the statements up to the next    *)
(* one: [raised, wb, todo], todo being the reads this one gives rise to,   *)
(* made before the reads that were pending                                 *)
ExportStep(d, guild_id, item, wb) ==
    CASE item.k = "regions" ->
           Let(_fetch_regions(d, guild_id), LAMBDA regions :
               IF Len(regions) > 0
               THEN [raised |-> FALSE,
                     wb |-> <<[title |-> "Regions",
                               sheet |-> [header |-> <<TextCell("region_id"),
                                                       TextCell("region_name")>>,
                                          rows |-> [i \in 1..Len(regions) |->
                                              <<IntCell(regions[i].region_id),
                                                TextCell(regions[i].region_name)>>]]]>>,
                     todo |-> [i \in 1..Len(regions) |->
                                 ReadItem("def", "encounter_type",
                                          Some(regions[i].region_id), None, None)]]
               ELSE [raised |-> FALSE, wb |-> wb,
                     todo |-> <<ReadItem("def", "encounter_type", None, None, None)>>])
      [] item.k = "def" ->
           Let(_fetch_table_def(d, guild_id, item.group_key, item.region_id,
                                item.type_key), LAMBDA def :
               IF def = None
               THEN [raised |-> item.group_key = "encounter_type" /\ item.region_id = None,
                     wb |-> wb, todo |-> <<>>]
               ELSE [raised |-> FALSE, wb |-> wb,
                     todo |-> <<ReadItem("entries", item.group_key, item.region_id,
                                         item.type_key, def)>>])
      [] item.k = "entries" ->
           Let(_fetch_table_entries(d, item.def[1].id), LAMBDA entries :
               [raised |-> FALSE,
                wb |-> _add_sheet_for_table(wb,
                          TitleOf(item.group_key, item.region_id, item.type_key),
                          IF item.group_key = "encounter_type" THEN "type" ELSE "result",
                          item.def[1].roll_mode, entries),
                todo |-> IF item.group_key # "encounter_type" THEN <<>>
                         ELSE FlatMap(LAMBDA t :
                                  <<ReadItem("def", "encounter", item.region_id,
                                             Some(t), None),
                                    ReadItem("def", "reward", item.region_id,
                                             Some(t), None)>>,
                                  SelectSeq(ResultsOf(entries), LAMBDA t : t # ""))])

(* build_workbook_bytes is called on a fresh connection *)
ExportCall(p, g) ==
    /\ conn[p].pc = "idle"
    /\ conn' = [conn EXCEPT ![p] =
          [IdleConn EXCEPT !.pc = "reading", !.op = "export", !.guild = g,
                           !.pre = db,
                           !.todo = <<ReadItem("regions", "", None, None, None)>>]]
    /\ UNCHANGED <<db, autoincrement, lock, clock, delete_view>>

(* the next SELECT of build_workbook_bytes; after the last one the         *)
(* workbook is saved and returned                                          *)
ExportRead(p) ==
    /\ conn[p].pc = "reading"
    /\ conn[p].op = "export"
    /\ \E step \in {ExportStep(db, conn[p].guild, Head(conn[p].todo), conn[p].acc)} :
       LET read == [conn[p] EXCEPT !.seen = @ \cup {db}, !.acc = step.wb,
                                   !.todo = step.todo \o Tail(@)]
       IN conn' = [conn EXCEPT ![p] =
             IF step.raised
             THEN [read EXCEPT !.pc = "done", !.todo = <<>>,
                               !.ret = RaisedException("RuntimeError")]
             ELSE IF read.todo = <<>>
             THEN [read EXCEPT !.pc = "done",
                               !.ret = [NoReturn EXCEPT !.kind = "workbook",
                                                        !.wb = step.wb]]
             ELSE read]
    /\ UNCHANGED <<db, autoincrement, lock, clock, delete_view>>

(* the group of the n-th roll of roll_encounter_embed *)
RollGroups == <<"encounter_type", "encounter", "reward">>

(* roll_encounter_embed is called on a fresh connection for the region;    *)
(* encounter_cmd and on_pick call it with the id of a region               *)
RollEncounterCall(p, g, region) ==
    /\ conn[p].pc = "idle"
    /\ conn' = [conn EXCEPT ![p] =
          [IdleConn EXCEPT !.pc = "reading", !.op = "roll_encounter", !.guild = g,
                           !.pre = db, !.rolled = <<region>>,
                           !.todo = <<ReadItem("def", "encounter_type", region,
                                               None, None)>>]]
    /\ UNCHANGED <<db, autoincrement, lock, clock, delete_view>>

(* the roll that follows the roll of the group, keyed by the rolled type *)
NextRoll(group_key, region, enc_type) ==
    IF group_key = "encounter_type"
    THEN <<ReadItem("def", "encounter", region, Some(enc_type), None)>>
    ELSE IF group_key = "encounter"
    THEN <<ReadItem("def", "reward", region, Some(enc_type), None)>>
    ELSE IF region # None
    THEN <<ReadItem("region_name", "", region, None, None)>>
    ELSE <<>>

(* the embed of the three rolls acc under the region label *)
EmbedOf(region_label, acc) ==
    Embed(IF region_label = None THEN "Random Encounter"
          ELSE "Random Encounter: " \o region_label[1],
          acc[1], acc[2], acc[3])

(* the next SELECT of roll_encounter_embed: the table_def of a roll, the   *)
(* entries of its table followed by the draw, or the name of the region    *)
RollRead(p) ==
    /\ conn[p].pc = "reading"
    /\ conn[p].op = "roll_encounter"
    /\ LET item == Head(conn[p].todo)
           read == [conn[p] EXCEPT !.seen = @ \cup {db}]
           Raise(out) == [read EXCEPT !.pc = "done", !.todo = <<>>,
                                      !.ret = RollOutcome(out)]
           Reply(acc, region_label) ==
               [read EXCEPT !.pc = "done", !.todo = <<>>, !.acc = acc,
                            !.ret = [NoReturn EXCEPT
                                        !.kind = "returned",
                                        !.result = EmbedOf(region_label, acc).embed]]
       IN CASE item.k = "def" ->
                 \E t \in {RollTableDef(db, conn[p].guild, item.group_key,
                                        item.region_id, item.type_key)} :
                    conn' = [conn EXCEPT ![p] =
                       IF t = None
                       THEN Raise(roll_from_table(db, conn[p].guild, item.group_key,
                                                  item.region_id, item.type_key, 1))
                       ELSE [read EXCEPT !.todo =
                                <<ReadItem("entries", item.group_key, item.region_id,
                                           item.type_key, t)>>]]
            [] item.k = "entries" ->
                 \E rows \in {RollRows(db, item.def[1].id)} :
                 \E draw \in 1..NumDraws(item.def[1], rows) :
                 \E out \in {RollRowsOf(item.def[1], rows, draw)} :
                    conn' = [conn EXCEPT ![p] =
                       IF out.kind = "raised" THEN Raise(out)
                       ELSE IF NextRoll(item.group_key, item.region_id,
                                        Append(conn[p].acc, out)[1].result) = <<>>
                       THEN Reply(Append(conn[p].acc, out), None)
                       ELSE [read EXCEPT
                               !.acc = Append(@, out),
                               !.todo = NextRoll(item.group_key, item.region_id,
                                                 Append(conn[p].acc, out)[1].result)]]
            [] item.k = "region_name" ->
                 conn' = [conn EXCEPT ![p] =
                    Reply(conn[p].acc,
                          get_region_name(db, conn[p].guild, item.region_id[1]))]
    /\ UNCHANGED <<db, autoincrement, lock, clock, delete_view>>

-----------------------------------------------------------------------------
(* The delete confirmation, src/delete_cmd.py *)

(* the users who send commands and press buttons *)
NumUsers == 2

Users == 1..NumUsers

(* Number of button events dispatched to one view *)
MaxEvents == 4

(* irreversably_delete_cmd: the view is created and sent with the stage-1  *)
(* warning                                                                 *)
IrreversablyDeleteCmd(u, g) ==
    /\ delete_view.state = "none"
    /\ delete_view' = [NoView EXCEPT !.state = "active", !.requester_id = u,
                                     !.guild_id = g, !.content = "WARNING_TEXT_STAGE_1"]
    /\ UNCHANGED <<db, autoincrement, lock, clock, conn>>

(* A button event reaches the view: the view is listening, the message     *)
(* shows the button enabled (the client sends no event for a disabled      *)
(* component), and the event is logged                                     *)
Dispatched(custom_id, u) ==
    /\ delete_view.state = "active"
    /\ ~delete_view.shown[custom_id]
    /\ Len(delete_view.log) < MaxEvents

Logged(v, custom_id, u) == [v EXCEPT !.log = Append(@, <<custom_id, u>>)]

(* interaction_check *)
interaction_check(u) == u = delete_view.requester_id

(* an event of a user other than the requester: interaction_check returns  *)
(* False and no callback runs                                              *)
EventRefused(custom_id, u) ==
    /\ Dispatched(custom_id, u)
    /\ ~interaction_check(u)
    /\ delete_view' = Logged(delete_view, custom_id, u)
    /\ UNCHANGED <<db, autoincrement, lock, clock, conn>>

(* the callback stage1 *)
stage1(u) ==
    /\ Dispatched("delete_stage1", u)
    /\ interaction_check(u)
    /\ LET disabled == [delete_view.disabled EXCEPT !.delete_stage1 = TRUE,
                                                     !.delete_stage2 = FALSE]
       IN delete_view' = [Logged(delete_view, "delete_stage1", u) EXCEPT
                             !.stage = 2, !.disabled = disabled,
                             !.shown = disabled,
                             !.content = "WARNING_TEXT_STAGE_2"]
    /\ UNCHANGED <<db, autoincrement, lock, clock, conn>>

(* Number of write operations in a run with the delete confirmation *)
MaxViewOps == 3

(* the callback stage2 up to db.execute("BEGIN") of delete_guild_data, on  *)
(* a connection of its own; the callback does not read self.stage          *)
stage2(p, u) ==
    /\ Dispatched("delete_stage2", u)
    /\ interaction_check(u)
    /\ DeleteCallUpTo(p, delete_view.guild_id, MaxViewOps)
    /\ delete_view' = [Logged(delete_view, "delete_stage2", u) EXCEPT
                          !.calls = @ \cup {p}, !.runs = @ + 1]

(* the callback stage2 after delete_guild_data has returned: the buttons   *)
(* are disabled, the message is edited and the view is stopped             *)
stage2_Deleted(p) ==
    /\ p \in delete_view.calls
    /\ conn[p].pc = "done"
    /\ conn[p].ret.kind = "returned"
    /\ delete_view' = [delete_view EXCEPT
                          !.disabled = AllDisabled, !.shown = AllDisabled,
                          !.content = "Deleted all encounter table data for this server.",
                          !.state = "stopped", !.calls = @ \ {p}]
    /\ conn' = [conn EXCEPT ![p] = IdleConn]
    /\ UNCHANGED <<db, autoincrement, lock, clock>>

(* delete_guild_data has raised: the exception leaves the callback, the    *)
(* view is as it was                                                       *)
stage2_Raised(p) ==
    /\ p \in delete_view.calls
    /\ conn[p].pc = "done"
    /\ conn[p].ret.kind = "raised"
    /\ delete_view' = [delete_view EXCEPT !.calls = @ \ {p}]
    /\ conn' = [conn EXCEPT ![p] = IdleConn]
    /\ UNCHANGED <<db, autoincrement, lock, clock>>

(* The callback cancel.  Its loop tests isinstance(item, discord.ui.button) *)
(* where discord.ui.button is the decorator function, not the class        *)
(* Button: isinstance raises TypeError on the first child, so no button is *)
(* disabled, the message is not edited and the view is not stopped.        *)
cancel(u) ==
    /\ Dispatched("delete_cancel", u)
    /\ interaction_check(u)
    /\ delete_view' = Logged(delete_view, "delete_cancel", u)
    /\ UNCHANGED <<db, autoincrement, lock, clock, conn>>

(* the 60 seconds of the view pass: it stops listening *)
DeleteViewTimeout ==
    /\ delete_view.state = "active"
    /\ delete_view' = [delete_view EXCEPT !.state = "timeout"]
    /\ UNCHANGED <<db, autoincrement, lock, clock, conn>>

(* Commands run one after the other on connection c1 *)
Next ==
    \/ \E g \in Guilds, w \in WorkbookIds : AllIdle /\ ImportCall("c1", g, w)
    \/ \E g \in Guilds : AllIdle /\ DeleteCall("c1", g)
    \/ \E g \in Guilds : AllIdle /\ DownloadCall("c1", g)
    \/ Begin("c1")
    \/ BeginFails("c1")
    \/ ExecStmt("c1")
    \/ Commit("c1")
    \/ StmtFails("c1")
    \/ Close("c1")

Spec == Init /\ [][Next]_vars

(* The workbooks imported before the table-reading commands run: uniform,  *)
(* weight and range tables, a range table that leaves rolls uncovered, one *)
(* without max_roll, and workbooks with one and with two regions           *)
CmdWorkbookSet ==
    {DefaultWorkbook(Std), DefaultWorkbook(Part(4, 1, 1, 0)),
     DefaultWorkbook(Part(10, 1, 1, 0)), DefaultWorkbook(Part(2, 3, 1, 0)),
     DefaultWorkbook(Part(2, 10, 1, 0)),
     RegionalWorkbook(1, <<Std, Std>>),
     RegionalWorkbook(2, <<Part(4, 3, 4, 0), Part(5, 4, 3, 0)>>)}

CmdWorkbookIds == {w \in WorkbookIds : Workbooks[w] \in CmdWorkbookSet}

(* Imports and deletes followed by the commands that read the tables: the  *)
(* roller, /encounter and /download, one command after the other           *)
NextCmd ==
    \/ \E g \in Guilds, w \in CmdWorkbookIds : AllIdle /\ ImportCall("c1", g, w)
    \/ \E g \in Guilds : AllIdle /\ DeleteCall("c1", g)
    \/ Begin("c1")
    \/ ExecStmt("c1")
    \/ Commit("c1")
    \/ StmtFails("c1")
    \/ \E g \in Guilds, group_key \in GroupKeys, region_id \in RegionArgs,
          type_key \in TypeArgs :
          AllIdle /\ RollCall("c1", g, group_key, region_id, type_key)
    \/ \E g \in Guilds : AllIdle /\ EncounterCmd("c1", g)
    \/ OnPick("c1")
    \/ ViewTimeout("c1")
    \/ \E g \in Guilds, is_admin \in BOOLEAN, template_exists \in BOOLEAN :
          AllIdle /\ DownloadCmd("c1", g, is_admin, template_exists)
    \/ Close("c1")

SpecCmd == Init /\ [][NextCmd]_vars

(* Two command handlers at once, each on a connection of its own and for a *)
(* tenant of its own; their statements interleave at every await           *)
GuildOf(p) == IF p = "c1" THEN 1 ELSE 2

ConcWorkbookSet == {DefaultWorkbook(Std), RegionalWorkbook(1, <<Std, Std>>)}

ConcWorkbookIds == {w \in WorkbookIds : Workbooks[w] \in ConcWorkbookSet}

(* Number of write operations in a run of the two handlers *)
MaxConcOps == 3

NextConc ==
    \E p \in Procs :
        \/ \E w \in ConcWorkbookIds :
              ImportCallUpTo(p, GuildOf(p), w, MaxConcOps) /\ UNCHANGED delete_view
        \/ DeleteCallUpTo(p, GuildOf(p), MaxConcOps) /\ UNCHANGED delete_view
        \/ Begin(p)
        \/ BeginFails(p)
        \/ ExecStmt(p)
        \/ Commit(p)
        \/ StmtFails(p)
        \/ Close(p)

SpecConc == Init /\ [][NextConc]_vars

(* The delete confirmation after imports: the workbooks imported before    *)
(* the command is given, and the events of the view, each callback on a    *)
(* connection of its own                                                   *)
ViewWorkbookSet == {DefaultWorkbook(Std), RegionalWorkbook(1, <<Std, Std>>)}

ViewWorkbookIds == {w \in WorkbookIds : Workbooks[w] \in ViewWorkbookSet}

ButtonIds == {"delete_stage1", "delete_stage2", "delete_cancel"}

NextView ==
    \/ \E g \in Guilds, w \in ViewWorkbookIds :
          /\ AllIdle /\ delete_view.state = "none"
          /\ ImportCallUpTo("c1", g, w, MaxViewOps - 1)
          /\ UNCHANGED delete_view
    \/ Close("c1") /\ conn["c1"].op = "import"
    \/ \E u \in Users, g \in Guilds : AllIdle /\ IrreversablyDeleteCmd(u, g)
    \/ \E u \in Users, custom_id \in ButtonIds : EventRefused(custom_id, u)
    \/ \E u \in Users : stage1(u)
    \/ \E u \in Users, p \in Procs : stage2(p, u)
    \/ \E u \in Users : cancel(u)
    \/ DeleteViewTimeout
    \/ \E p \in Procs :
          \/ Begin(p)
          \/ BeginFails(p)
          \/ ExecStmt(p)
          \/ Commit(p)
          \/ StmtFails(p)
          \/ stage2_Deleted(p)
          \/ stage2_Raised(p)

SpecView == Init /\ [][NextView]_vars

(* Two command handlers at once for the same tenant: imports on both       *)
(* connections, and on the second also an export or the rolls of an        *)
(* encounter, read by read                                                 *)
SameWorkbookSet ==
    {DefaultWorkbook(Std), DefaultWorkbook(Part(2, 1, 1, 0)),
     RegionalWorkbook(1, <<Std, Std>>),
     RegionalWorkbook(2, <<Part(4, 3, 4, 0), Std>>)}

SameWorkbookIds == {w \in WorkbookIds : Workbooks[w] \in SameWorkbookSet}

(* Number of imports in a run of the two handlers *)
MaxSameOps == 2

NextSame ==
    \/ \E p \in Procs :
          \/ \E w \in SameWorkbookIds :
                ImportCallUpTo(p, 1, w, MaxSameOps) /\ UNCHANGED delete_view
          \/ Begin(p)
          \/ ExecStmt(p)
          \/ Commit(p)
          \/ StmtFails(p)
          \/ Close(p)
    \/ ExportCall("c2", 1)
    \/ ExportRead("c2")
    \/ \E region \in RegionArgs \ {None} : RollEncounterCall("c2", 1, region)
    \/ RollRead("c2")

SpecSame == Init /\ [][NextSame]_vars

-----------------------------------------------------------------------------
(* Properties of the import: validation and storage failures *)

(* the rows of tenant g; entries are reached through the tenant's tables *)
GuildConfigOf(d, g) == {r \in d.guild_config : r.guild_id = g}

RegionsOf(d, g) == {r \in d.region : r.guild_id = g}

TableDefsOf(d, g) == {r \in d.table_def : r.guild_id = g}

(* the errors parsing accumulates on the Regions sheet, the types sheets   *)
(* and the result sheets of a workbook, whatever the call then does        *)
SheetHasError(wb, tab, kind) ==
    \/ tab \notin SheetNames(wb)
    \/ LET rd == _read_sheet_rows(SheetOf(wb, tab))
       IN \/ kind \notin DOMAIN rd.header_map
          \/ _detect_mode(tab, rd.header_map, rd.data).errors # <<>>
          \/ IF kind = "type" THEN _parse_type_tab(wb, tab).errors # <<>>
             ELSE _parse_result_tab(wb, tab).errors # <<>>

DeclaredRegionIds(wb) ==
    IF "Regions" \in SheetNames(wb)
    THEN {Some(r.region_id) : r \in Range(_parse_regions_tab(wb).regions)}
    ELSE {None}

DeclaredTypes(wb, region_id) == Range(_parse_type_tab(wb, _enc_type_tab(region_id)).items)

AccumulatesError(wb) ==
    \/ _parse_regions_tab(wb).errs # <<>>
    \/ \E rid \in DeclaredRegionIds(wb) :
          \/ SheetHasError(wb, _enc_type_tab(rid), "type")
          \/ \E t \in DeclaredTypes(wb, rid) :
                \/ SheetHasError(wb, _enc_tab(rid, t), "result")
                \/ SheetHasError(wb, _rew_tab(rid, t), "result")

InvalidWorkbookIds == {w \in WorkbookIds : AccumulatesError(Workbooks[w])}

ImportDone(p) == conn[p].pc = "done" /\ conn[p].op = "import"

(* C1: an import of a workbook on which parsing accumulates a validation   *)
(* error writes nothing to storage and returns no counts together with a   *)
(* non-empty error list.                                                   *)
C1_InvalidWorkbookReturnsErrors ==
    \A p \in Procs :
        ImportDone(p) /\ conn[p].wbook \in InvalidWorkbookIds
        => /\ db = conn[p].pre
           /\ conn[p].failed = None
           /\ conn[p].ret.kind = "returned"
           /\ conn[p].ret.counts = NoCounts
           /\ conn[p].ret.errors # <<>>

(* C2: when a step of phase 2 (BEGIN, a statement, COMMIT) fails, storage  *)
(* is as before the import and the call returns a single error with tab    *)
(* "DB" and no counts.                                                     *)
C2_StorageFailureIsReturned ==
    \A p \in Procs :
        ImportDone(p) /\ conn[p].failed # None
        => /\ db = conn[p].pre
           /\ conn[p].ret.kind = "returned"
           /\ conn[p].ret.counts = NoCounts
           /\ Len(conn[p].ret.errors) = 1
           /\ conn[p].ret.errors[1].tab = "DB"

-----------------------------------------------------------------------------
(* Properties of the stored rows after a successful import *)

ImportSucceeded(p) == ImportDone(p) /\ conn[p].ret.counts # NoCounts

TableDefsAt(d, g, group_key, region_id, type_key) ==
    {r \in TableDefsOf(d, g) : /\ r.group_key = group_key
                               /\ r.region_id = region_id
                               /\ r.type_key = type_key}

(* the rows a table must hold for the parsed entries, in fetch order *)
EntryRows(table_id, entries) ==
    [i \in 1..Len(entries) |->
        [table_id |-> table_id, min_roll |-> entries[i].min,
         max_roll |-> entries[i].max, weight |-> entries[i].weight,
         result |-> entries[i].result, sort_order |-> i - 1]]

(* exactly one table_def at the key, with the parsed mode and max_roll,    *)
(* holding exactly the parsed entries                                      *)
StoresTable(d, g, group_key, region_id, type_key, mode, max_roll, entries) ==
    LET rows == TableDefsAt(d, g, group_key, region_id, type_key)
    IN /\ Cardinality(rows) = 1
       /\ \A r \in rows :
             /\ r.roll_mode = mode
             /\ r.max_roll = max_roll
             /\ _fetch_table_entries(d, r.id) = EntryRows(r.id, entries)

StoresRegion(d, g, wb, blob) ==
    /\ StoresTable(d, g, "encounter_type", blob.region_id, None,
                   blob.enc_type.mode, blob.enc_type.max_roll,
                   KeptRows(blob.enc_type.mode,
                            _read_sheet_rows(SheetOf(wb, blob.enc_type.tab)).header_map,
                            _read_sheet_rows(SheetOf(wb, blob.enc_type.tab)).data,
                            "type"))
    /\ \A t \in Range(blob.enc_type.types) :
          /\ StoresTable(d, g, "encounter", blob.region_id, Some(t),
                         blob.enc_tables[t].mode, blob.enc_tables[t].max_roll,
                         blob.enc_tables[t].entries)
          /\ StoresTable(d, g, "reward", blob.region_id, Some(t),
                         blob.rew_tables[t].mode, blob.rew_tables[t].max_roll,
                         blob.rew_tables[t].entries)

StoresWorkbook(d, before, g, w) ==
    LET parsed == ParsedWorkbooks[w]
        TableCount(b) == <<1 + 2 * Len(b.enc_type.types)>>
    IN /\ RegionsOf(d, g) =
            IF parsed.regional_mode
            THEN {[guild_id |-> g, region_id |-> parsed.regions[i].region_id,
                   region_name |-> parsed.regions[i].region_name,
                   sort_order |-> i - 1] : i \in 1..Len(parsed.regions)}
            ELSE {}
       /\ \A i \in 1..Len(parsed.parsed_regions) :
             StoresRegion(d, g, Workbooks[w], parsed.parsed_regions[i])
       /\ Cardinality(TableDefsOf(d, g))
            = SumSeq(FlatMap(TableCount, parsed.parsed_regions))
       /\ TableDefsOf(d, g) \cap before.table_def = {}
       /\ \A k \in 1..Len(d.table_entry) :
             d.table_entry[k].table_id \in {r.id : r \in TableDefsOf(before, g)}
             => d.table_entry[k].table_id \in {r.id : r \in TableDefsOf(d, g)}

(* C3: after a successful import for tenant T, T's Region rows are the     *)
(* parsed regions in sheet order, T has exactly one encounter_type table   *)
(* per region pass and one encounter and one reward table per type, each   *)
(* holding exactly its parsed entries with sort_order = position, and no   *)
(* table_def row from before the import, and no entry of one, remains.     *)
C3_StoredRowsAreTheWorkbook ==
    \A p \in Procs :
        ImportSucceeded(p)
        => StoresWorkbook(db, conn[p].pre, conn[p].guild, conn[p].wbook)


-----------------------------------------------------------------------------
(* Import followed by export *)

(* the entries the types sheet of a region holds *)
TypeRows(wb, region_id) == build_type_entries_from_sheet(wb, region_id)

(* the sheet titles a workbook with these regions and types consists of *)
ExpectedTitles(parsed) ==
    LET Typed(b) ==
            {_enc_tab(b.region_id, t) : t \in Range(b.enc_type.types)}
            \cup {_rew_tab(b.region_id, t) : t \in Range(b.enc_type.types)}
            \cup {_enc_type_tab(b.region_id)}
    IN UNION {Typed(parsed.parsed_regions[i]) : i \in 1..Len(parsed.parsed_regions)}
       \cup (IF parsed.regional_mode THEN {"Regions"} ELSE {})

SameRegionTables(x, wb, blob) ==
    /\ _enc_type_tab(blob.region_id) \in SheetNames(x)
    /\ TypeRows(x, blob.region_id) = TypeRows(wb, blob.region_id)
    /\ \A t \in Range(blob.enc_type.types) :
          /\ _enc_tab(blob.region_id, t) \in SheetNames(x)
          /\ _rew_tab(blob.region_id, t) \in SheetNames(x)
          /\ _parse_result_tab(x, _enc_tab(blob.region_id, t)).items
                = blob.enc_tables[t].entries
          /\ _parse_result_tab(x, _rew_tab(blob.region_id, t)).items
                = blob.rew_tables[t].entries

ExportReproduces(d, g, w) ==
    LET out == build_workbook_bytes(d, g)
        x == out.wb
        wb == Workbooks[w]
        parsed == ParsedWorkbooks[w]
        again == ParseWorkbook(x)
    IN /\ out.kind = "workbook"
       /\ parsed.regional_mode
            => /\ "Regions" \in SheetNames(x)
               /\ _parse_regions_tab(x).regions = parsed.regions
       /\ \A i \in 1..Len(parsed.parsed_regions) :
             SameRegionTables(x, wb, parsed.parsed_regions[i])
       /\ SheetNames(x) = ExpectedTitles(parsed)
       /\ again.kind = "parsed"
       /\ again.regions = parsed.regions
       /\ again.parsed_regions = parsed.parsed_regions
       /\ \A i \in 1..Len(parsed.parsed_regions) :
             TypeRows(x, parsed.parsed_regions[i].region_id)
                = TypeRows(wb, parsed.parsed_regions[i].region_id)

(* C4: for every workbook that import accepts, the export made right after *)
(* the import has the same regions in the same order, the same types sheet *)
(* rows per region, exactly one Encounter and one Reward sheet per         *)
(* discovered type with the same entries in the same order, and is itself  *)
(* accepted by import with the same table contents.                        *)
C4_ExportReproducesImport ==
    \A p \in Procs :
        ImportSucceeded(p) => ExportReproduces(db, conn[p].guild, conn[p].wbook)



-----------------------------------------------------------------------------
(* Invariants of the stored tables *)

(* the entries a table_def row owns: the rows referencing its id *)
EntriesOf(d, r) == SelectSeq(d.table_entry, LAMBDA e : e.table_id = r.id)

Intersect(a, b) == a.min_roll[1] <= b.max_roll[1] /\ b.min_roll[1] <= a.max_roll[1]

RangeTableOk(entries) ==
    /\ \A i \in 1..Len(entries) :
          /\ entries[i].min_roll # None
          /\ entries[i].max_roll # None
          /\ entries[i].min_roll[1] <= entries[i].max_roll[1]
    /\ \A i, j \in 1..Len(entries) :
          i # j => ~Intersect(entries[i], entries[j])

(* C5: in every reachable state every entry of a stored range-mode table   *)
(* has min_roll <= max_roll and no two distinct entries of one table have  *)
(* intersecting [min_roll, max_roll] intervals.                            *)
C5_RangeTablesDisjoint ==
    \A r \in db.table_def :
        r.roll_mode = ROLL_RANGE => RangeTableOk(EntriesOf(db, r))

(* C6: in every reachable state every entry of a stored weight-mode table  *)
(* has a non-null weight >= 1 and every entry of a table of another mode   *)
(* has a null weight.                                                      *)
C6_WeightsMatchMode ==
    \A r \in db.table_def :
        \A i \in 1..Len(EntriesOf(db, r)) :
            LET e == EntriesOf(db, r)[i]
            IN IF r.roll_mode = ROLL_WEIGHT
               THEN e.weight # None /\ e.weight[1] >= 1
               ELSE e.weight = None

TableKey(r) == <<r.guild_id, r.group_key, r.region_id, r.type_key>>

(* C7: in every reachable state no two table_def rows share the same       *)
(* (tenant, group_key, region_id, type_key), NULL being a value equal to   *)
(* itself.                                                                 *)
C7_TableKeyUnique ==
    \A r, q \in db.table_def : TableKey(r) = TableKey(q) => r = q

(* a second import for a tenant that had tables has committed *)
C7_Witness ==
    \E p \in Procs :
        /\ ImportSucceeded(p)
        /\ TableDefsOf(conn[p].pre, conn[p].guild) # {}
        /\ Cardinality(TableDefsOf(db, conn[p].guild)) >= 3

-----------------------------------------------------------------------------
(* Reported validation errors *)

ErrorTabs(errors) == {errors[i].tab : i \in 1..Len(errors)}

(* the sheets of a workbook that have a validation error: the Regions      *)
(* sheet, the types sheet of every declared region and the Encounter and   *)
(* Reward sheets of every declared type                                    *)
SheetsWithErrors(wb) ==
    (IF _parse_regions_tab(wb).errs # <<>> THEN {"Regions"} ELSE {})
    \cup {_enc_type_tab(rid) : rid \in
             {r \in DeclaredRegionIds(wb) :
                 SheetHasError(wb, _enc_type_tab(r), "type")}}
    \cup UNION {
           {_enc_tab(rid, t) : t \in
               {u \in DeclaredTypes(wb, rid) :
                   SheetHasError(wb, _enc_tab(rid, u), "result")}}
           \cup {_rew_tab(rid, t) : t \in
               {u \in DeclaredTypes(wb, rid) :
                   SheetHasError(wb, _rew_tab(rid, u), "result")}}
           : rid \in DeclaredRegionIds(wb)}

ValidationFailed(p) ==
    /\ ImportDone(p)
    /\ conn[p].failed = None
    /\ conn[p].ret.kind = "returned"
    /\ conn[p].ret.errors # <<>>

(* C8: when an import fails validation, the returned error list has an     *)
(* error for every sheet that has one, over the Regions sheet, all types   *)
(* sheets and all Encounter and Reward sheets of all regions.              *)
C8_EverySheetErrorReported ==
    \A p \in Procs :
        ValidationFailed(p)
        => SheetsWithErrors(Workbooks[conn[p].wbook]) \subseteq ErrorTabs(conn[p].ret.errors)

(* the Encounter and Reward sheets of declared types the workbook lacks *)
MissingTypedSheets(wb) ==
    UNION {
        {tab \in {_enc_tab(rid, t) : t \in DeclaredTypes(wb, rid)}
                 \cup {_rew_tab(rid, t) : t \in DeclaredTypes(wb, rid)} :
            tab \notin SheetNames(wb)}
        : rid \in DeclaredRegionIds(wb)}

(* C9: when the Encounter or Reward sheet of a declared type is absent,    *)
(* the import stores nothing and returns an error list with an error whose *)
(* sheet is exactly the expected sheet title.                              *)
C9_MissingSheetIsNamed ==
    \A p \in Procs :
        ImportDone(p) /\ MissingTypedSheets(Workbooks[conn[p].wbook]) # {}
        => /\ db = conn[p].pre
           /\ conn[p].ret.kind = "returned"
           /\ conn[p].ret.counts = NoCounts
           /\ MissingTypedSheets(Workbooks[conn[p].wbook])
                 \subseteq ErrorTabs(conn[p].ret.errors)

-----------------------------------------------------------------------------
(* Export *)

DownloadDone(p) == conn[p].pc = "done" /\ conn[p].op = "download"

TabOf(r) ==
    IF r.group_key = "encounter_type" THEN _enc_type_tab(r.region_id)
    ELSE IF r.group_key = "encounter" THEN _enc_tab(r.region_id, r.type_key[1])
    ELSE _rew_tab(r.region_id, r.type_key[1])

(* the workbook has a sheet titled for the table with the table's entries *)
ContainsTable(x, d, r) ==
    LET entries == _fetch_table_entries(d, r.id)
    IN \E i \in 1..Len(x) :
          /\ x[i].title = TabOf(r)
          /\ Len(x[i].sheet.rows) = Len(entries)
          /\ \A k \in 1..Len(entries) :
                x[i].sheet.rows[k][Len(x[i].sheet.rows[k])] = TextCell(entries[k].result)

(* C10: build_workbook_bytes for tenant T fails with the no-data condition *)
(* if and only if T has zero table_def rows; with at least one table_def   *)
(* row it returns a workbook containing T's tables.                        *)
C10_NoDataIffNoTables ==
    \A p \in Procs :
        DownloadDone(p)
        => /\ conn[p].ret.kind = "raised" <=> TableDefsOf(db, conn[p].guild) = {}
           /\ TableDefsOf(db, conn[p].guild) # {}
                => /\ conn[p].ret.kind = "workbook"
                   /\ \A r \in TableDefsOf(db, conn[p].guild) :
                         ContainsTable(conn[p].ret.wb, db, r)

(* an export fails after the only tenant's data was imported and deleted *)
C10_Witness ==
    \E p \in Procs :
        /\ DownloadDone(p)
        /\ conn[p].ret.kind = "raised"
        /\ db.table_def = {}
        /\ db.table_entry # <<>>

-----------------------------------------------------------------------------
(* Rolls *)

RollDone(p) == conn[p].pc = "done" /\ conn[p].op = "roll"

(* the table_def rows of d with exactly the key of the roll of connection  *)
(* c, NULL equal to NULL only                                              *)
SelectedTables(d, c) == {r \in d.table_def : TableKey(r) = <<c.guild>> \o c.sel}

MissingTable(c) ==
    [NoReturn EXCEPT
       !.kind = "raised", !.exc = "RuntimeError",
       !.result = <<"Missing table: " \o c.sel[1] \o " region=" \o OptIntStr(c.sel[2])
                    \o " type=" \o OptStr(c.sel[3])>>]

EmptyTable ==
    [NoReturn EXCEPT !.kind = "raised", !.exc = "RuntimeError",
                     !.result = <<"Table has no entries">>]

(* C11: roll_from_table fails with the missing-table condition exactly     *)
(* when no table_def row has the key (tenant, group, region_id, type_key), *)
(* NULL matching only NULL; it fails with the empty-table condition when   *)
(* the matched table has no entries; in both cases it returns no result,   *)
(* and a roll never changes storage.                                       *)
C11_MissingAndEmptyTable ==
    /\ \A p \in Procs :
          RollDone(p)
          => /\ conn[p].ret = MissingTable(conn[p])
                   <=> SelectedTables(conn[p].pre, conn[p]) = {}
             /\ \A r \in SelectedTables(conn[p].pre, conn[p]) :
                   EntriesOf(conn[p].pre, r) = <<>> => conn[p].ret = EmptyTable
             /\ db = conn[p].pre
    /\ \A r \in db.table_def, draw \in 1..2 :
          RollRowsOf(r, <<>>, draw) = RollRaised("RuntimeError", "Table has no entries")

(* a roll with a NULL type on a tenant that has tables, but none with the  *)
(* region asked for, fails with the missing-table condition                *)
C11_Witness ==
    \E p \in Procs :
        /\ RollDone(p)
        /\ conn[p].ret = MissingTable(conn[p])
        /\ conn[p].sel = <<"encounter_type", Some(1), None>>
        /\ \E r \in TableDefsOf(db, conn[p].guild) :
              r.group_key = "encounter_type" /\ r.region_id = None

(* the stored weight-mode tables all of whose entries have a weight >= 1 *)
WeightTables(d) ==
    {r \in d.table_def :
        /\ r.roll_mode = ROLL_WEIGHT
        /\ EntriesOf(d, r) # <<>>
        /\ \A i \in 1..Len(EntriesOf(d, r)) :
              /\ EntriesOf(d, r)[i].weight # None
              /\ EntriesOf(d, r)[i].weight[1] >= 1}

(* w1 + .. + wi *)
RECURSIVE CumWeight(_, _)
CumWeight(items, i) == IF i = 0 THEN 0 ELSE CumWeight(items, i - 1) + items[i].w

(* the entry i with w1 + .. + w(i-1) < r <= w1 + .. + wi *)
EntryOfDraw(items, r) ==
    CHOOSE i \in 1..Len(items) : CumWeight(items, i - 1) < r /\ r <= CumWeight(items, i)

PicksByWeight(items) ==
    /\ \A r \in 1..CumWeight(items, Len(items)) :
          /\ PickLoop(items, r, 0) # None
          /\ _pick_weighted(items, r) = items[EntryOfDraw(items, r)].val
    /\ \A i \in 1..Len(items) :
          Cardinality({r \in 1..CumWeight(items, Len(items)) :
                          PickLoop(items, r, 0) # None
                          /\ EntryOfDraw(items, r) = i}) = items[i].w

(* C12: for a weight-mode table whose entries in stored order have the     *)
(* positive weights w1..wk with total S, every draw r in 1..S returns the  *)
(* entry i with w1+..+w(i-1) < r <= w1+..+wi, so wi of the S draws select  *)
(* entry i, and the loop never ends without returning; a roll on such a    *)
(* table draws from 1..S and returns that entry with the label "weight".   *)
C12_WeightedPick ==
    /\ \A r \in WeightTables(db) : PicksByWeight(WeightItems(RollRows(db, r.id)))
    /\ \A p \in Procs :
          RollDone(p)
          => \A r \in SelectedTables(db, conn[p]) \cap WeightTables(db) :
                LET items == WeightItems(RollRows(db, r.id))
                IN /\ conn[p].draw \in 1..CumWeight(items, Len(items))
                   /\ conn[p].ret.kind = "returned"
                   /\ conn[p].ret.result =
                         <<items[EntryOfDraw(items, conn[p].draw)].val, "weight">>

(* a roll on a weight table of two entries whose draw is the total weight  *)
C12_Witness ==
    \E p \in Procs :
        /\ RollDone(p)
        /\ \E r \in SelectedTables(db, conn[p]) \cap WeightTables(db) :
              LET items == WeightItems(RollRows(db, r.id))
              IN /\ Len(items) = 2
                 /\ items[1].w = 2
                 /\ conn[p].draw = CumWeight(items, 2)
                 /\ conn[p].ret.result = <<items[2].val, "weight">>

(* the results of the entries whose [min_roll, max_roll] contains d *)
ResultsContaining(rows, d) ==
    {rows[i].result : i \in {k \in 1..Len(rows) :
        /\ rows[k].min_roll # None
        /\ rows[k].max_roll # None
        /\ rows[k].min_roll[1] <= d
        /\ d <= rows[k].max_roll[1]}}

(* out is what the claim asks of a roll with draw d on the range table t *)
RangeRollOk(t, rows, d, out) ==
    IF t.max_roll = None \/ t.max_roll[1] <= 0
    THEN out = RollRaised("RuntimeError", "Range mode table missing max_roll")
    ELSE IF ResultsContaining(rows, d) = {}
    THEN out = RollRaised("RuntimeError", "No range matched roll " \o IntStr(d))
    ELSE /\ out.kind = "returned"
         /\ out.result \in ResultsContaining(rows, d)
         /\ out.meta = "range d" \o IntStr(t.max_roll[1]) \o "=" \o IntStr(d)

RangeTablesWithRows(d) ==
    {r \in d.table_def : r.roll_mode = ROLL_RANGE /\ EntriesOf(d, r) # <<>>}

-----------------------------------------------------------------------------
(* Tenant isolation *)

(* the region, table_def and guild_config rows of tenant g, and the        *)
(* table_entry rows (by rowid) attached to a table of g                    *)
TenantRows(d, g) ==
    [region |-> RegionsOf(d, g), table_def |-> TableDefsOf(d, g),
     guild_config |-> GuildConfigOf(d, g),
     entries |-> {k \in 1..Len(d.table_entry) :
                    \E r \in TableDefsOf(d, g) : r.id = d.table_entry[k].table_id}]

(* a step of connection p leaves the rows of every other tenant as they    *)
(* are, in the database file and in the connection's own view              *)
StepKeepsOtherTenants ==
    \A p \in Procs :
        conn'[p] # conn[p] /\ conn[p].pc \in {"tx"}
        => \A g \in Guilds \ {conn[p].guild} :
              /\ TenantRows(db', g) = TenantRows(db, g)
              /\ conn'[p].work # None
                    => TenantRows(conn'[p].work[1], g) = TenantRows(db, g)

(* every table_entry row, in the file and in every connection's view, is   *)
(* attached to tables of the tenant it was written for only                *)
EntriesStayWithTenant(d) ==
    \A k \in 1..Len(d.table_entry) :
        \A r \in d.table_def :
            r.id = d.table_entry[k].table_id => r.guild_id = d.written_for[k]

(* C14: for two distinct tenants A and B and any interleaving of the        *)
(* statements of their imports and deletes, no statement executed for A    *)
(* inserts, deletes or changes a region, table_def, guild_config or        *)
(* attached table_entry row of B, and no entry written for A becomes       *)
(* attached to a table of B.                                               *)
C14_TenantsDoNotInterfere ==
    [][/\ StepKeepsOtherTenants
       /\ EntriesStayWithTenant(db')
       /\ \A p \in Procs :
             conn'[p].work # None => EntriesStayWithTenant(conn'[p].work[1])]_vars

-----------------------------------------------------------------------------
(* Commands *)

Prompted(c) == \E i \in 1..Len(c.sent) : c.sent[i] = "Pick a region:"

EncounterReplied(p) ==
    conn[p].op = "encounter" /\ conn[p].pc \in {"prompt", "done"}

(* the parts of C15 for tenants with one region and with several *)
OneRegionRollsAtOnce(c) ==
    /\ Cardinality(RegionsOf(c.pre, c.guild)) = 1
          => /\ \E r \in RegionsOf(c.pre, c.guild) : c.rolled = <<Some(r.region_id)>>
             /\ ~Prompted(c)
    /\ Prompted(c) => Cardinality(RegionsOf(c.pre, c.guild)) # 1

(* C15: in the encounter command a tenant with zero regions gets its three *)
(* rolls made with region_id = NULL and the result sent without a region   *)
(* prompt; with exactly one region the rolls are made with that region     *)
(* without a prompt; the prompt is shown only with two or more regions.    *)
C15_EncounterRegionChoice ==
    \A p \in Procs :
        EncounterReplied(p)
        => /\ Cardinality(RegionsOf(conn[p].pre, conn[p].guild)) = 0
                 => conn[p].rolled = <<None>> /\ ~Prompted(conn[p])
           /\ OneRegionRollsAtOnce(conn[p])
           /\ Prompted(conn[p]) => Cardinality(RegionsOf(conn[p].pre, conn[p].guild)) >= 2

DownloadCmdDone(p) == conn[p].op = "download_cmd" /\ conn[p].pc = "done"

Exported(c) == \E i \in 1..Len(c.sent) : c.sent[i] = "export"

(* C16: the download command is admin only: to an invoking user without    *)
(* administrator permission no exported workbook of the tenant's tables is *)
(* sent.                                                                   *)
C16_DownloadIsAdminOnly ==
    \A p \in Procs :
        DownloadCmdDone(p) /\ ~conn[p].admin => ~Exported(conn[p])

-----------------------------------------------------------------------------
(* Ownership of entries *)

(* C17: in every state reachable by imports and deletes every table_entry  *)
(* row references an existing table_def row: import and delete remove the  *)
(* entries of every table_def they delete, so that no entry of a replaced  *)
(* or deleted table survives to become attached to a later table_def with  *)
(* the same id.                                                            *)
C17_EntriesReferenceTables ==
    \A k \in 1..Len(db.table_entry) :
        \E r \in db.table_def : r.id = db.table_entry[k].table_id

-----------------------------------------------------------------------------
(* max_roll *)

(* the largest max_roll of the entries, which all have one *)
MaxUpperBound(entries) ==
    CHOOSE m \in {entries[i].max_roll[1] : i \in 1..Len(entries)} :
        \A i \in 1..Len(entries) : entries[i].max_roll[1] <= m

HasUpperBounds(entries) ==
    entries # <<>> /\ \A i \in 1..Len(entries) : entries[i].max_roll # None

(* C18: for every table_def committed by an import, a range table has a    *)
(* non-null max_roll equal to the maximum max_roll over its stored         *)
(* entries, also when every upper bound is zero or negative, and a uniform *)
(* or weight table has a null max_roll.                                    *)
C18_MaxRollIsLargestUpperBound ==
    \A p \in Procs :
        ImportSucceeded(p)
        => \A r \in TableDefsOf(db, conn[p].guild) :
              IF r.roll_mode = ROLL_RANGE
              THEN HasUpperBounds(EntriesOf(db, r))
                   => r.max_roll = Some(MaxUpperBound(EntriesOf(db, r)))
              ELSE r.max_roll = None

-----------------------------------------------------------------------------
(* Range columns *)

(* the sheet has exactly one of the columns min and max *)
OneSided(ws) ==
    ("min" \in DOMAIN _read_sheet_rows(ws).header_map)
        # ("max" \in DOMAIN _read_sheet_rows(ws).header_map)

(* the types sheets and the result sheets of declared types that have      *)
(* exactly one of the two columns                                          *)
OneSidedSheets(wb) ==
    {s \in UNION {{[tab |-> _enc_type_tab(rid), kind |-> "type"]}
                  \cup {[tab |-> _enc_tab(rid, t), kind |-> "result"] :
                           t \in DeclaredTypes(wb, rid)}
                  \cup {[tab |-> _rew_tab(rid, t), kind |-> "result"] :
                           t \in DeclaredTypes(wb, rid)}
                  : rid \in DeclaredRegionIds(wb)} :
        s.tab \in SheetNames(wb) /\ OneSided(SheetOf(wb, s.tab))}

ParserOutcome(wb, s) ==
    IF s.kind = "type" THEN _parse_type_tab(wb, s.tab) ELSE _parse_result_tab(wb, s.tab)

RangeColumnsError(tab) ==
    ImportError(tab, None, "Range mode requires both 'min' and 'max' columns.")

(* C19: when a types sheet or a result sheet has exactly one of the columns *)
(* min and max, the sheet's parser returns the range-columns error for it  *)
(* without raising, and the import returns an error list and no counts and *)
(* leaves storage unchanged.                                               *)
C19_OneSidedRangeIsAnError ==
    \A p \in Procs :
        ImportDone(p)
        => \A s \in OneSidedSheets(Workbooks[conn[p].wbook]) :
              /\ ~ParserOutcome(Workbooks[conn[p].wbook], s).exc
              /\ RangeColumnsError(s.tab)
                    \in Range(ParserOutcome(Workbooks[conn[p].wbook], s).errors)
              /\ conn[p].ret.kind = "returned"
              /\ conn[p].ret.counts = NoCounts
              /\ conn[p].ret.errors # <<>>
              /\ db = conn[p].pre

(* the data rows of a sheet with both columns whose min or max cell is     *)
(* absent or not an integer                                                *)
BadRangeRows(ws) ==
    {i \in 1..Len(_read_sheet_rows(ws).data) :
        \/ MinMax(_read_sheet_rows(ws).data[i], _read_sheet_rows(ws).header_map).mi = None
        \/ MinMax(_read_sheet_rows(ws).data[i], _read_sheet_rows(ws).header_map).ma = None}

(* the types sheets and the result sheets of declared types, in range mode *)
(* with both columns, that have such a row                                 *)
SheetsWithBadRangeRows(wb) ==
    {s \in UNION {{[tab |-> _enc_type_tab(rid), kind |-> "type"]}
                  \cup {[tab |-> _enc_tab(rid, t), kind |-> "result"] :
                           t \in DeclaredTypes(wb, rid)}
                  \cup {[tab |-> _rew_tab(rid, t), kind |-> "result"] :
                           t \in DeclaredTypes(wb, rid)}
                  : rid \in DeclaredRegionIds(wb)} :
        /\ s.tab \in SheetNames(wb)
        /\ {"min", "max"} \subseteq DOMAIN _read_sheet_rows(SheetOf(wb, s.tab)).header_map
        /\ BadRangeRows(SheetOf(wb, s.tab)) # {}}

(* C20: a workbook with a range-mode sheet that has a data row whose min   *)
(* or max cell is absent or not an integer is rejected: no import of it    *)
(* returns counts, so no such row is left out of an accepted range table.  *)
C20_BadRangeRowIsAnError ==
    \A p \in Procs :
        ImportDone(p) /\ SheetsWithBadRangeRows(Workbooks[conn[p].wbook]) # {}
        => ~(conn[p].ret.kind = "returned" /\ conn[p].ret.counts # NoCounts)

-----------------------------------------------------------------------------
(* Weight columns *)

(* the data rows of a weight-mode sheet whose weight cell is absent, not   *)
(* an integer, zero or negative                                            *)
BadWeightRows(ws) ==
    {i \in 1..Len(_read_sheet_rows(ws).data) :
        \/ _to_int(Cell(_read_sheet_rows(ws).data[i],
                        _read_sheet_rows(ws).header_map, "weight")) = None
        \/ _to_int(Cell(_read_sheet_rows(ws).data[i],
                        _read_sheet_rows(ws).header_map, "weight"))[1] <= 0}

(* the types sheets and the result sheets of declared types, in weight     *)
(* mode, that have such a row                                              *)
SheetsWithBadWeightRows(wb) ==
    {s \in UNION {{[tab |-> _enc_type_tab(rid), kind |-> "type"]}
                  \cup {[tab |-> _enc_tab(rid, t), kind |-> "result"] :
                           t \in DeclaredTypes(wb, rid)}
                  \cup {[tab |-> _rew_tab(rid, t), kind |-> "result"] :
                           t \in DeclaredTypes(wb, rid)}
                  : rid \in DeclaredRegionIds(wb)} :
        /\ s.tab \in SheetNames(wb)
        /\ "weight" \in DOMAIN _read_sheet_rows(SheetOf(wb, s.tab)).header_map
        /\ {"min", "max"} \cap DOMAIN _read_sheet_rows(SheetOf(wb, s.tab)).header_map = {}
        /\ BadWeightRows(SheetOf(wb, s.tab)) # {}}

(* C21: a workbook with a weight-mode sheet that has a data row whose      *)
(* weight cell is absent, not an integer, zero or negative is rejected: no *)
(* import of it returns counts, so no such row is left out of an accepted  *)
(* weight table.                                                           *)
C21_BadWeightRowIsAnError ==
    \A p \in Procs :
        ImportDone(p) /\ SheetsWithBadWeightRows(Workbooks[conn[p].wbook]) # {}
        => ~(conn[p].ret.kind = "returned" /\ conn[p].ret.counts # NoCounts)

-----------------------------------------------------------------------------
(* delete_guild_data *)

DeleteDone(p) == conn[p].pc = "done" /\ conn[p].op = "delete"

(* tenant g has no row in any of the four tables *)
NoRowsOf(d, g) ==
    /\ RegionsOf(d, g) = {}
    /\ TableDefsOf(d, g) = {}
    /\ GuildConfigOf(d, g) = {}
    /\ \A k \in 1..Len(d.table_entry) : d.written_for[k] # g

(* every roll for tenant g reports a missing table *)
EveryRollMisses(d, g) ==
    \A group_key \in GroupKeys, region_id \in RegionArgs, type_key \in TypeArgs :
        RollOutcome(roll_from_table(d, g, group_key, region_id, type_key, 1))
            = MissingTable([guild |-> g, sel |-> <<group_key, region_id, type_key>>])

(* the rows of the tenants other than g are the same in d and in before *)
OthersUnchanged(d, before, g) ==
    \A h \in Guilds \ {g} :
        /\ TenantRows(d, h) = TenantRows(before, h)
        /\ \A k \in TenantRows(before, h).entries : d.table_entry[k] = before.table_entry[k]

(* C25: delete_guild_data for tenant T is all-or-nothing: after it         *)
(* succeeds T has no row in region, table_def, table_entry and             *)
(* guild_config, an export reports no data and every roll a missing table, *)
(* and the rows of the other tenants are unchanged; after it fails the     *)
(* database is as before.                                                  *)
C25_DeleteRemovesExactlyTheTenant ==
    \A p \in Procs :
        DeleteDone(p)
        => IF conn[p].ret.kind = "returned"
           THEN /\ NoRowsOf(db, conn[p].guild)
                /\ ~db_has_any_tables(db, conn[p].guild)
                /\ build_workbook_bytes(db, conn[p].guild).kind = "raised"
                /\ EveryRollMisses(db, conn[p].guild)
                /\ OthersUnchanged(db, conn[p].pre, conn[p].guild)
           ELSE db = conn[p].pre

-----------------------------------------------------------------------------
(* The composed roll *)

(* the stored table of the key has at least one entry *)
HasTableWithEntries(d, g, group_key, region_id, type_key) ==
    \E r \in TableDefsAt(d, g, group_key, region_id, type_key) :
        _fetch_table_entries(d, r.id) # <<>>

(* every entry of every encounter_type table of tenant g has an encounter  *)
(* and a reward table of its region                                        *)
TypesHaveTables(d, g) ==
    \A r \in TableDefsOf(d, g) :
        r.group_key = "encounter_type"
        => \A e \in Range(_fetch_table_entries(d, r.id)) :
              /\ HasTableWithEntries(d, g, "encounter", r.region_id, Some(e.result))
              /\ HasTableWithEntries(d, g, "reward", r.region_id, Some(e.result))

(* the messages of the missing-table and the empty-table condition *)
MissingOrEmpty(region, enc_type) ==
    {"Table has no entries"}
    \cup {"Missing table: " \o sel[1] \o " region=" \o OptIntStr(region)
              \o " type=" \o OptStr(sel[2]) :
          sel \in {<<"encounter_type", None>>, <<"encounter", enc_type>>,
                   <<"reward", enc_type>>}}

(* no composed roll for a region pass of tenant g fails with the           *)
(* missing-table or the empty-table condition                              *)
ComposedRollFindsTables(d, g) ==
    \A r \in TableDefsOf(d, g) :
        r.group_key = "encounter_type"
        => \A draws \in EncounterDraws(d, g, r.region_id) :
              LET out == roll_encounter_embed(d, g, r.region_id, draws)
                  enc_type == roll_from_table(d, g, "encounter_type", r.region_id,
                                              None, draws[1])
              IN out.kind = "raised"
                 => out.msg \notin MissingOrEmpty(r.region_id,
                        IF enc_type.kind = "raised" THEN None
                        ELSE Some(enc_type.result))

(* C26: after a successful import, every entry of each stored              *)
(* encounter_type table of the tenant has an encounter table and a reward  *)
(* table for the same region and the entry's result as type_key, each with *)
(* at least one entry, and the composed roll of each region pass does not  *)
(* fail with the missing-table or the empty-table condition.               *)
C26_RolledTypesHaveTables ==
    \A p \in Procs :
        ImportSucceeded(p)
        => /\ TypesHaveTables(db, conn[p].guild)
           /\ ComposedRollFindsTables(db, conn[p].guild)

-----------------------------------------------------------------------------
(* Duplicate types *)

(* the parsed type list of the region pass of the workbook *)
ParsedTypes(parsed, region_id) ==
    (CHOOSE b \in Range(parsed.parsed_regions) : b.region_id = region_id).enc_type.types

(* the export of tenant g creates the sheet of each table once, under the  *)
(* table's own title                                                       *)
ExportTitlesAreTables(d, g) ==
    LET x == build_workbook_bytes(d, g).wb
    IN \A i \in 1..Len(x) :
          /\ x[i].title \in {"Regions"} \cup {TabOf(r) : r \in TableDefsOf(d, g)}
          /\ \A k \in 1..Len(x) : x[k].title = x[i].title => k = i

(* C27: an accepted import into a database without entries stores each    *)
(* type once: the results of the stored encounter_type table of each       *)
(* region pass are pairwise distinct and are the deduplicated type list in *)
(* first-seen order, and the export creates each sheet title once.         *)
C27_DuplicateTypesStoredOnce ==
    \A p \in Procs :
        ImportSucceeded(p) /\ conn[p].pre.table_entry = <<>>
        => /\ \A r \in TableDefsOf(db, conn[p].guild) :
                 r.group_key = "encounter_type"
                 => /\ ResultsOf(_fetch_table_entries(db, r.id))
                         = DictFromKeys(ResultsOf(_fetch_table_entries(db, r.id)), {})
                    /\ ResultsOf(_fetch_table_entries(db, r.id))
                         = ParsedTypes(ParsedWorkbooks[conn[p].wbook], r.region_id)
           /\ ExportTitlesAreTables(db, conn[p].guild)

-----------------------------------------------------------------------------
(* Regions and tables *)

(* the table_def rows of tenant g refer to regions of g, every region of g *)
(* has its encounter_type table, and a tenant with tables has regions      *)
(* exactly when all its tables have a region                               *)
RegionsMatchTables(d, g) ==
    /\ \A r \in TableDefsOf(d, g) :
          r.region_id # None
          => \E x \in RegionsOf(d, g) : x.region_id = r.region_id[1]
    /\ \A x \in RegionsOf(d, g) :
          TableDefsAt(d, g, "encounter_type", Some(x.region_id), None) # {}
    /\ TableDefsOf(d, g) # {}
          => (RegionsOf(d, g) # {}
                <=> \A r \in TableDefsOf(d, g) : r.region_id # None)

-----------------------------------------------------------------------------
(* The delete confirmation *)

(* the positions of the events of the button by the requester in the log *)
EventsOfRequester(v, custom_id) ==
    {i \in 1..Len(v.log) : v.log[i] = <<custom_id, v.requester_id>>}

(* delete_guild_data was called only after the requester pressed stage 1   *)
(* and then stage 2, with stage = 2, and once for each such stage-2 event  *)
DeleteAfterBothStages(v) ==
    /\ v.runs > 0
          => /\ v.stage = 2
             /\ \E i \in EventsOfRequester(v, "delete_stage1") :
                   \E j \in EventsOfRequester(v, "delete_stage2") : i < j
    /\ Len(v.log) <= 1 => v.runs = 0
    /\ v.runs <= Cardinality(EventsOfRequester(v, "delete_stage2"))

(* C23: delete_guild_data is executed only after the stage-1 button and    *)
(* then the stage-2 button were pressed, both by the requester, with stage *)
(* = 2; no single event and no event of another user leads to it; and it   *)
(* runs at most once per view.                                             *)
C23_DeleteNeedsBothStagesOnce ==
    /\ DeleteAfterBothStages(delete_view)
    /\ delete_view.runs <= 1

(* C24: after the requester has pressed Cancel, in stage 1 or in stage 2,  *)
(* the view is stopped with all its buttons disabled, on the object and on *)
(* the message, and no later event of the view starts the delete.          *)
C24_CancelIsTerminal ==
    \A i \in EventsOfRequester(delete_view, "delete_cancel") :
        /\ delete_view.state = "stopped"
        /\ delete_view.disabled = AllDisabled
        /\ delete_view.shown = AllDisabled
        /\ \A j \in EventsOfRequester(delete_view, "delete_stage2") : j < i

-----------------------------------------------------------------------------
(* Concurrent calls for one tenant *)

(* The step is the commit of the import of connection p, the later of two  *)
(* successful imports for one tenant that were both called before either   *)
(* committed                                                               *)
CommitsLastOfTwo(p, q) ==
    /\ p # q
    /\ conn[p].op = "import" /\ conn[p].pc = "tx"
    /\ conn'[p].pc = "done" /\ conn'[p].ret.counts # NoCounts
    /\ ImportSucceeded(q)
    /\ conn[q].guild = conn[p].guild
    /\ conn[q].pre = conn[p].pre

(* C22: when two imports of one tenant run concurrently and both report    *)
(* success, the tenant's stored state after the later commit is exactly    *)
(* the content of the workbook committed last: its regions, one table per  *)
(* key, and in each table exactly the parsed entries of that workbook.     *)
C22_LastCommitWins ==
    [][\A p, q \in Procs :
          CommitsLastOfTwo(p, q)
          => StoresWorkbook(db', EmptyDb, conn[p].guild, conn[p].wbook)]_vars

ExportDone(p) == conn[p].pc = "done" /\ conn[p].op = "export"

(* the outcome ret is the outcome of the export of the state d as a whole *)
IsExportOf(ret, d, g) ==
    IF build_workbook_bytes(d, g).kind = "raised"
    THEN ret.kind = "raised"
    ELSE ret.kind = "workbook" /\ ret.wb = build_workbook_bytes(d, g).wb

(* C29: an export for tenant T that runs while imports for T commit        *)
(* returns the export of one committed state as a whole, the state before  *)
(* or the state after an import: its reads do not combine rows of two      *)
(* states and it omits no sheet of a table it listed.                      *)
C29_ExportReadsOneState ==
    \A p \in Procs :
        ExportDone(p)
        => \E d \in conn[p].seen : IsExportOf(conn[p].ret, d, conn[p].guild)

RollEncounterDone(p) == conn[p].pc = "done" /\ conn[p].op = "roll_encounter"

(* no composed roll for the region on the state d fails with the           *)
(* missing-table or the empty-table condition                              *)
ValidTables(d, g, region) ==
    \A draws \in EncounterDraws(d, g, region) :
        LET out == roll_encounter_embed(d, g, region, draws)
            enc_type == roll_from_table(d, g, "encounter_type", region, None, draws[1])
        IN out.kind = "raised"
           => out.msg \notin MissingOrEmpty(region,
                  IF enc_type.kind = "raised" THEN None ELSE Some(enc_type.result))

(* the outcome ret is an outcome of the composed roll on the state d *)
IsRollOf(ret, d, g, region) ==
    \E draws \in EncounterDraws(d, g, region) :
        LET out == roll_encounter_embed(d, g, region, draws)
        IN ret = IF out.kind = "raised" THEN RollOutcome(out)
                 ELSE [NoReturn EXCEPT !.kind = "returned", !.result = out.embed]

(* C30: a roll of an encounter for tenant T that runs while imports for T  *)
(* commit, T having valid tables for the region in every state it reads,   *)
(* returns a type, an encounter and a reward of one of these states as a   *)
(* whole, and does not fail with the missing-table or the empty-table      *)
(* condition.                                                              *)
C30_EncounterRollReadsOneState ==
    \A p \in Procs :
        (/\ RollEncounterDone(p)
         /\ \A d \in conn[p].seen : ValidTables(d, conn[p].guild, conn[p].rolled[1]))
        => /\ \E d \in conn[p].seen :
                 IsRollOf(conn[p].ret, d, conn[p].guild, conn[p].rolled[1])
           /\ conn[p].ret.kind = "raised"
                 => \A enc_type \in {None, Some("a"), Some("b")} :
                       conn[p].ret.result[1]
                           \notin MissingOrEmpty(conn[p].rolled[1], enc_type)

====
